---- MODULE Spec2Model ----
(***************************************************************************)
(* A model of Trapiron's crash reporting system (src/src/crash.rs): the    *)
(* thread-local crash context, the entries that with_context() pins in its *)
(* own call frame, the panic hook and report_crash().                      *)
(*                                                                         *)
(* One thread is modelled.  Its call stack is the sequence `frames`; the   *)
(* last element is the code that is running.  An Entry lives in the frame  *)
(* of the with_context() call that created it, and its memory address is   *)
(* the position of that frame on the call stack: two live entries never    *)
(* share an address, and an address is reused once its frame is gone.      *)
(*                                                                         *)
(* Spec is that thread's run through the crash module.  The other          *)
(* specifications each run one more part of the program and leave the rest *)
(* of the state alone: SpecEvaluate (EntryLike::evaluate on its own),      *)
(* SpecThreads (two threads, each with its own CONTEXT), SpecMisuse (an    *)
(* Entry dropped without publish()), SpecTick (client::Game::tick,         *)
(* src/src/client.rs), SpecBox (Vec3BoxIter, src/src/world/vec_iter.rs),   *)
(* SpecControl (client::control::Control), SpecWinit (WinitApplication,    *)
(* src/src/gui/backend_glium/winit_lifecycle.rs) and SpecArray3 (Array3,   *)
(* src/src/world/array3.rs).                                               *)
(***************************************************************************)
EXTENDS Integers, Sequences, FiniteSets, TLC

(* ------------------------------ bounds --------------------------------- *)

\* Number of operations user code starts in one execution: calls of
\* with_context, catch_unwind, report_crash and setup_panic_hook, and panics.
\* Returns, the reporter's own steps and the unwinding are not counted.
MaxOps == 5

\* Entries evaluated on their own, and evaluate() calls on each of them.
PoolSize == 2
MaxEvaluations == 3

\* Operations (with_context, report_crash) each of the two threads starts.
MaxThreadOps == 3

\* Calls of Game::tick, the instants they are given (0..MaxInstant, in units
\* of 1/60 s), and the control events one presentation tick fetches.
MaxTicks == 2
MaxInstant == 7
MaxFetched == 1

\* Coordinates of the corners given to iter_box (0..MaxCoord), and calls of
\* next() made after the iterator returned None for the first time.
MaxCoord == 2
MaxNones == 2

\* Calls of Control::on_input and of Control::pending_events.
MaxInputs == 4
MaxFetches == 2

\* Calls winit makes of the handlers of WinitApplication.
MaxHandlerCalls == 4

\* The largest extent of an Array3 along an axis.
MaxShape == 2

(* ------------------------------ inputs --------------------------------- *)

\* What a value supplier returns: a &str or a u64 (both are Debug).
StrValue(s) == [type |-> "str", str |-> s, num |-> 0]
U64Value(n) == [type |-> "u64", str |-> "", num |-> n]

\* The (name, supplied value) pairs the callers of with_context() pass:
\* Game::tick_logic, Game::tick_presentation and the frame counter of the
\* GUI backend.
Contexts == {<<"Tick phase", StrValue("logic")>>,
             <<"Tick phase", StrValue("presentation")>>,
             <<"Current frame", U64Value(42)>>}

\* Messages given to report_crash(), and payloads of panics.
Messages == {"", "boom"}
Payloads == {"boom"}

(* ------------------------------ Option --------------------------------- *)

None == [some |-> FALSE]
Some(x) == [some |-> TRUE, v |-> x]

Last(s) == s[Len(s)]
Front(s) == SubSeq(s, 1, Len(s) - 1)

(* ------------------------------ state ---------------------------------- *)

VARIABLES
    context,       \* CONTEXT: the thread's Context, [entries |-> Option<Vec<ptr>>]
    frames,        \* the thread's call stack, outermost frame first
    mode,          \* "run", "unwind" (a panic is unwinding), "dead", "abort"
    hook,          \* whether setup_panic_hook() has installed the hook
    stderr,        \* the reports printed by eprintln!, oldest first
    calls,         \* history: number of with_context() calls so far
    takes,         \* history: number of context::take() calls so far
    ops,           \* history: number of operations user code has started
    supplied,      \* history: ids of the entries whose supplier ran, in order
    returned,      \* history: ids of the calls that returned normally
    unwound,       \* history: ids of the calls left by an unwinding panic
    assert_failed, \* history: debug_assert_eq! in Entry::drop saw a mismatch
    reports,       \* history: what each finished report_crash() call reported
    pool,          \* entries that are evaluated on their own (see SpecEvaluate)
    panics,        \* history: the panics user code raised, oldest first
    installs,      \* history: number of setup_panic_hook() calls that returned
    results,       \* history: what each action and its with_context() returned
    threads,       \* two threads, each with its own CONTEXT (see SpecThreads)
    game,          \* a client::Game inside Game::tick (see SpecTick)
    box,           \* a Vec3BoxIter and what it yielded (see SpecBox)
    control,       \* a client::control::Control (see SpecControl)
    winit,         \* a WinitApplication and its event loop (see SpecWinit)
    array3         \* an Array3 being generated and read (see SpecArray3)

vars == <<context, frames, mode, hook, stderr, calls, takes, ops,
          supplied, returned, unwound, assert_failed, reports, pool,
          panics, installs, results, threads, game, box, control, winit,
          array3>>

\* What the actions of the crash module leave alone.
elsewhere == <<threads, game, box, control, winit, array3>>

\* The state of one thread's run through the crash module.
crash == <<context, frames, mode, hook, stderr, calls, takes, ops, supplied,
           returned, unwound, assert_failed, reports, pool, panics, installs,
           results>>

(* ------------------------- crash::Reportable --------------------------- *)

\* Reportable::present: format!("{:?}", self).  Debug prints a &str inside
\* double quotes and an integer in decimal.
present(v) ==
    IF v.type = "str" THEN "\"" \o v.str \o "\"" ELSE ToString(v.num)

(* --------------------------- crash::context ---------------------------- *)

\* Context::new: entries starts as Some(empty vector).
ContextNew == [entries |-> Some(<<>>)]

\* Entry::from: the name and Some(supplier).
EntryFrom(key, f) == [key |-> key, value_supplier |-> Some(f)]

\* A publish() that enables a disabled context again (get_or_insert_with).
publish_reenables(ctx, me) ==
    IF ctx.entries.some
    THEN [ctx EXCEPT !.entries = Some(Append(ctx.entries.v, me))]
    ELSE [ctx EXCEPT !.entries = Some(<<me>>)]

\* A publish() whose test is inverted: it never pushes.
publish_never(ctx, me) == ctx

\* A publish() that puts the address at the front of the vector.
publish_front(ctx, me) ==
    IF ctx.entries.some
    THEN [ctx EXCEPT !.entries = Some(<<me>> \o ctx.entries.v)]
    ELSE ctx

\* Entry::publish: push the entry's address unless the context is disabled.
publish(ctx, me) ==
    IF ctx.entries.some
    THEN [ctx EXCEPT !.entries = Some(Append(ctx.entries.v, me))]
    ELSE ctx

\* A drop() that checks what it popped even when the context is disabled.
drop_asserts(ctx, me) ==
    IF ctx.entries.some
    THEN LET vec == ctx.entries.v
             popped == IF vec = <<>> THEN None ELSE Some(Last(vec))
         IN  [context |-> [ctx EXCEPT !.entries =
                               Some(IF vec = <<>> THEN vec ELSE Front(vec))],
              ok |-> popped = Some(me)]
    ELSE [context |-> ctx, ok |-> None = Some(me)]

\* A drop() that pops nothing.
drop_keeps(ctx, me) == [context |-> ctx, ok |-> TRUE]

\* Drop for Entry: pop the last address unless the context is disabled; `ok`
\* is the outcome of debug_assert_eq!(popped, Some(me)).
drop(ctx, me) ==
    IF ctx.entries.some
    THEN LET vec == ctx.entries.v
             popped == IF vec = <<>> THEN None ELSE Some(Last(vec))
         IN  [context |-> [ctx EXCEPT !.entries =
                               Some(IF vec = <<>> THEN vec ELSE Front(vec))],
              ok |-> popped = Some(me)]
    ELSE [context |-> ctx, ok |-> TRUE]

\* A take() that walks the drained vector from its end.
take_reversed(ctx) ==
    [context |-> [ctx EXCEPT !.entries = None],
     entries |-> IF ctx.entries.some
                 THEN [i \in 1..Len(ctx.entries.v) |->
                          ctx.entries.v[Len(ctx.entries.v) + 1 - i]]
                 ELSE <<>>]

\* A take() that copies the vector and leaves the context enabled.
take_keeps(ctx) ==
    [context |-> ctx,
     entries |-> IF ctx.entries.some THEN ctx.entries.v ELSE <<>>]

\* The first statement of context::take: context.entries.take()
\* .unwrap_or_else(Vec::new), which leaves None behind.
take(ctx) ==
    [context |-> [ctx EXCEPT !.entries = None],
     entries |-> IF ctx.entries.some THEN ctx.entries.v ELSE <<>>]

\* The placeholder EntryLike::evaluate returns once the supplier is gone.
CalledTwice == "[Entry.evaluate called twice]"

\* An evaluate() that leaves the supplier in the entry (as_ref for take).
evaluate_peeks(entry) ==
    [entry |-> entry, key |-> entry.key, f |-> entry.value_supplier]

\* EntryLike::evaluate up to the supplier call: value_supplier.take() leaves
\* None in the entry; `f` is the closure to call, if there was one.
evaluate(entry) ==
    [entry |-> [entry EXCEPT !.value_supplier = None],
     key   |-> entry.key,
     f     |-> entry.value_supplier]

(* ---------------------------- report_crash ----------------------------- *)

Header == "==== Trapiron crash report ====\nTrapiron has crashed!"
Footer == "====== Crash report end ======="
Options == <<":(", ":\\", ":/", "o_o", ">:[", ":|">>

\* A decoration that changes from one report to the next.
funny_counts(message) == Options[((Len(message) + takes) % Len(Options)) + 1]

\* options[message.len() % options.len()] (Rust indexes from 0).
funny(message) == Options[(Len(message) % Len(Options)) + 1]

\* The fold over the pairs take() returned: "{key}:\n    {value}\n" each.
RECURSIVE fold(_)
fold(pairs) ==
    IF pairs = <<>> THEN ""
    ELSE fold(Front(pairs)) \o
         (Last(pairs)[1] \o ":\n    " \o Last(pairs)[2] \o "\n")

\* A report that prints the context before the message.
ReportText_context_first(message, pairs) ==
    Header \o " " \o funny(message) \o "\n\n" \o fold(pairs) \o "\n\n" \o
    message \o "\n\n" \o Footer

\* The text eprintln! prints: "{} {}\n\n{}\n\n{}\n\n{}".
ReportText(message, pairs) ==
    Header \o " " \o funny(message) \o "\n\n" \o message \o "\n\n" \o
    fold(pairs) \o "\n\n" \o Footer

\* What the hook passes to report_crash: format!("{info}"), the panic's
\* location followed by its payload.
PanicInfo(payload) == "panicked at src/main.rs:1:1:\n" \o payload

(* ------------------------------ frames --------------------------------- *)

\* A with_context() call whose action is running.  The pinned Entry is a
\* local of this frame.  `id` numbers the call, `ctxt` keeps its argument
\* and `pre` the context as it was when the call began (these three are
\* history, not code state).
WithContextFrame(id, ctxt, entry, pre) ==
    [kind |-> "with_context", id |-> id, ctxt |-> ctxt, entry |-> entry,
     pre |-> pre]

\* A std::panic::catch_unwind() whose closure is running.
CatchFrame == [kind |-> "catch_unwind"]

\* A report_crash() call inside context::take: `entries` is the drained
\* vector, `next` the position of its into_iter(), `result` the pairs
\* pushed so far.  `in_hook` tells a call made by the panic hook from one made
\* directly.  `ids` lists the calls whose pairs are in `result`, and `at`
\* describes the moment of the drain (both are history, not code state).
ReportFrame(message, entries, in_hook, at) ==
    [kind |-> "report_crash", message |-> message, entries |-> entries,
     next |-> 1, result |-> <<>>, in_hook |-> in_hook, ids |-> <<>>,
     at |-> at]

\* A value supplier called by evaluate(), running user code.
SupplierFrame(id, key, f) ==
    [kind |-> "supplier", id |-> id, key |-> key, f |-> f]

Depth == Len(frames)
Top == frames[Depth]

\* User code is running: the thread is not unwinding, and the innermost frame
\* is not the reporter's own loop.
UserCode ==
    /\ mode = "run"
    /\ Depth > 0 => Top.kind # "report_crash"

\* The panic hook is running somewhere below on the call stack.
InHook == \E i \in 1..Depth :
              frames[i].kind = "report_crash" /\ frames[i].in_hook

\* Some report_crash() is in progress below on the call stack.
InReport == \E i \in 1..Depth : frames[i].kind = "report_crash"

\* The with_context() calls whose action is running, outermost first.
ActiveAddrs == SelectSeq([i \in 1..Depth |-> i],
                         LAMBDA i : frames[i].kind = "with_context")
ActiveCalls == [i \in 1..Len(ActiveAddrs) |->
                   [id |-> frames[ActiveAddrs[i]].id,
                    ctxt |-> frames[ActiveAddrs[i]].ctxt]]
ActiveIds == {frames[i].id : i \in {j \in 1..Depth :
                                       frames[j].kind = "with_context"}}

\* A pointer that take() may dereference: the address of a live Entry.
Live(ptr) == ptr \in 1..Depth /\ frames[ptr].kind = "with_context"

\* The moment of a drain, for the history: which take() call it is, whether
\* the context was still enabled, which with_context() calls were active and
\* which had already been left; `panic` is the number of the panic whose hook
\* made the call (0 for a call by user code).
Moment == [nth |-> takes + 1, enabled |-> context.entries.some,
           active |-> ActiveCalls, returned |-> returned, unwound |-> unwound,
           panic |-> 0]

(* ----------------------------- two threads ----------------------------- *)

\* The threads of the process.
ThreadIds == {1, 2}

\* A context cell that is one static shared by every thread.
CONTEXT_static(t) == 1

\* thread_local! { static CONTEXT }: the cell a thread reaches through the
\* name CONTEXT is the thread's own.
CONTEXT(t) == t

\* A thread that has not touched the crash module yet: its cell is
\* initialised with Context::new(), its call stack is empty.
ThreadNew == [context |-> ContextNew, frames |-> <<>>, reports |-> <<>>,
              ops |-> 0, takes |-> 0, assert_failed |-> FALSE]

(* ---------------------------- client::Game ----------------------------- *)

\* Duration::from_secs(1) in the unit of the model's instants, 1/60 s.
Second == 60

\* world::TARGET_TPS.
TARGET_TPS == 20

\* client::target_tick_duration(): Duration::from_secs(1) / TARGET_TPS.
target_tick_duration == Second \div TARGET_TPS

\* Instant - Instant: the duration since the earlier instant, zero if it is
\* not earlier.
Since(now, time) == IF now >= time THEN now - time ELSE 0

\* TickStats::default().
TickStatsDefault == [last_duration |-> 0, last_timestamp |-> None,
                     completed |-> 0]

\* TickStats::start_tick.
start_tick(stats, now) ==
    IF stats.last_timestamp.some
    THEN [stats EXCEPT !.last_duration = Since(now, stats.last_timestamp.v)]
    ELSE stats

\* TickStats::end_tick.
end_tick(stats, now) ==
    [stats EXCEPT !.last_timestamp = Some(now), !.completed = @ + 1]

\* Game::new, and no call of Game::tick made yet.  `pc` is the position in
\* Game::tick, `now` its argument and `next_logic_tick` the local of its
\* loop; `calls`, `before` (the last logic tick's instant when the call
\* began), `ran` (the ticks the call executed, as <<phase, instant>>) and
\* `logic_instants` (the instants of all logic ticks so far) are history, and
\* so are `processed` (the events the last logic tick passed to
\* World::process) and `passed` (those the last presentation tick passed to
\* World::process_presentation).
GameNew ==
    [logic_ticks |-> [TickStatsDefault EXCEPT
                         !.last_duration = target_tick_duration],
     presentation_ticks |-> [TickStatsDefault EXCEPT
                                !.last_duration = Second \div 60],
     buffered_events |-> <<>>,
     pc |-> "idle", now |-> 0, next_logic_tick |-> 0,
     calls |-> 0, before |-> None, ran |-> <<>>, logic_instants |-> <<>>,
     processed |-> <<>>, passed |-> <<>>]

(* --------------------------- world::vec_iter --------------------------- *)

\* glam's UVec3.
UVec3(x, y, z) == [x |-> x, y |-> y, z |-> z]

\* Vec3BoxIter::new with `end` left as it is given.
Vec3BoxIterNew_unclamped(begin, end) ==
    [begin |-> begin, end |-> end, next |-> begin]

\* Vec3BoxIter::new: `end` is replaced by `begin` unless begin.cmplt(end).all().
Vec3BoxIterNew(begin, end) ==
    [begin |-> begin,
     end |-> IF begin.x < end.x /\ begin.y < end.y /\ begin.z < end.z
             THEN end ELSE begin,
     next |-> begin]

\* begin.iter_box(end), with the corners it was given, the results of the
\* next() calls made on it so far and what size_hint() returned if it was
\* called since the last of them (history).
BoxOf(begin, end) ==
    [iter |-> Vec3BoxIterNew(begin, end), begin |-> begin, end |-> end,
     out |-> <<>>, hint |-> None]

(* ---------------------------- world::array3 --------------------------- *)

\* Array3::generate(shape, generator) at its loop: the iterator over the
\* positions and the vector being filled.  `pc` is "generate" in the loop,
\* "built" once the array exists, "pos_iter" while a PositionIter is being
\* consumed and "done" after it returned None; `pos_iter` and `elem_iter`
\* are the fields of the PositionIter.  `generated` (the positions the
\* generator was called with), `yielded` (the items of the PositionIter)
\* and `read` (the last array[pos] read) are history.
Array3Of(shape) ==
    [shape |-> shape, data |-> <<>>, pc |-> "generate",
     iter |-> Vec3BoxIterNew(UVec3(0, 0, 0), shape),
     pos_iter |-> Vec3BoxIterNew(UVec3(0, 0, 0), shape), elem_iter |-> 0,
     generated |-> <<>>, yielded |-> <<>>, read |-> None]

(* ------------------------- client::control ---------------------------- *)

\* Vec3 with the components the keyboard moves the camera by.
Vec3(x, y, z) == [x |-> x, y |-> y, z |-> z]

\* Control::new (Default): nothing pending, no key held, no noclip.  The
\* cursor capture belongs to the Gui that on_input is given.  `queued` (every
\* event on_input stored, with the number of SetCameraRotation events fetched
\* before it), `fetched` (every event pending_events returned) and
\* `exhausted` (the last pending_events iterator was run to its end) are
\* history; an event's `n` numbers the events in the order they were stored.
ControlNew ==
    [pending |-> <<>>,
     pending_set_camera_rotation |-> None,
     keyboard_camera_move_state |-> Vec3(0, 0, 0),
     last_camera_rotation |-> [yaw |-> 0, pitch |-> 0],
     noclip |-> FALSE,
     cursor_captured |-> FALSE,
     inputs |-> 0, fetches |-> 0,
     queued |-> <<>>, fetched |-> <<>>, exhausted |-> FALSE]

(* ------------------ gui::backend_glium::winit_lifecycle ---------------- *)

\* run(): the WinitApplication is built in the state Ready(initializer) and
\* handed to the event loop.  `pc` is the position inside resumed() ("loop"
\* when no handler is running, "over" when a panic ended run_app); `log`
\* (what resumed() executed, in order), `delivered` (the events handed to
\* handle_event with the state they were handed in), `redraws` and `handled`
\* (the handlers called so far) are history.
WinitApplicationNew ==
    [state |-> "Ready", pc |-> "loop",
     log |-> <<>>, delivered |-> <<>>, redraws |-> 0, handled |-> <<>>]

(* ------------------------------- Init ---------------------------------- *)

\* The initial state of what lies outside the crash module.
ElsewhereInit ==
    /\ threads = [t \in ThreadIds |-> ThreadNew]
    /\ game = GameNew
    /\ box = BoxOf(UVec3(0, 0, 0), UVec3(0, 0, 0))
    /\ control = ControlNew
    /\ winit = WinitApplicationNew
    /\ array3 = Array3Of(UVec3(0, 0, 0))

Init ==
    /\ context = ContextNew
    /\ frames = <<>>
    /\ mode = "run"
    /\ hook = FALSE
    /\ stderr = <<>>
    /\ calls = 0
    /\ takes = 0
    /\ ops = 0
    /\ supplied = <<>>
    /\ returned = {}
    /\ unwound = {}
    /\ assert_failed = FALSE
    /\ reports = <<>>
    /\ pool = <<>>
    /\ panics = <<>>
    /\ installs = 0
    /\ results = <<>>
    /\ ElsewhereInit

(* ------------------------------ actions -------------------------------- *)

\* An installation that undoes the one before it.
SetupPanicHook_toggles ==
    /\ UserCode
    /\ ops < MaxOps
    /\ ops' = ops + 1
    /\ hook' = IF InHook THEN hook ELSE ~hook
    /\ mode' = IF InHook THEN "abort" ELSE mode
    /\ installs' = IF InHook THEN installs ELSE installs + 1
    /\ UNCHANGED <<context, frames, stderr, calls, takes, supplied, returned,
                   unwound, assert_failed, reports, pool, panics, results,
                   elsewhere>>

\* setup_panic_hook(): std::panic::set_hook replaces whatever hook was there.
\* On a panicking thread set_hook panics itself; user code can only be
\* running on a panicking thread inside the hook, where a panic aborts.
SetupPanicHook ==
    /\ UserCode
    /\ ops < MaxOps
    /\ ops' = ops + 1
    /\ hook' = (hook \/ ~InHook)
    /\ mode' = IF InHook THEN "abort" ELSE mode
    /\ installs' = IF InHook THEN installs ELSE installs + 1
    /\ UNCHANGED <<context, frames, stderr, calls, takes, supplied, returned,
                   unwound, assert_failed, reports, pool, panics, results,
                   elsewhere>>

\* A with_context() that calls the supplier when the entry is built.
WithContext_eager(key, f) ==
    /\ UserCode
    /\ ops < MaxOps
    /\ ops' = ops + 1
    /\ LET me == Depth + 1
           entry == [key |-> key, value_supplier |-> None]
       IN  /\ context' = publish(context, me)
           /\ frames' = Append(frames, WithContextFrame(calls + 1, <<key, f>>,
                                                        entry, context))
    /\ calls' = calls + 1
    /\ supplied' = Append(supplied, [id |-> calls + 1, nth |-> 0])
    /\ UNCHANGED <<mode, hook, stderr, takes, returned,
                   unwound, assert_failed, reports, pool,
                   panics, installs, results, elsewhere>>

\* A with_context() that keeps one entry per label: the entry of a call whose
\* label is already on the stack is not published.
WithContext_dedup(key, f) ==
    /\ UserCode
    /\ ops < MaxOps
    /\ ops' = ops + 1
    /\ LET me == Depth + 1
           entry == EntryFrom(key, f)
           known == \E i \in 1..Depth : /\ frames[i].kind = "with_context"
                                        /\ frames[i].ctxt[1] = key
       IN  /\ context' = IF known THEN context ELSE publish(context, me)
           /\ frames' = Append(frames, WithContextFrame(calls + 1, <<key, f>>,
                                                        entry, context))
    /\ calls' = calls + 1
    /\ UNCHANGED <<mode, hook, stderr, takes, supplied, returned,
                   unwound, assert_failed, reports, pool,
                   panics, installs, results, elsewhere>>

\* with_context((key, f), action) up to the call of `action`: the entry is
\* built in this frame, pinned and published.
WithContext(key, f) ==
    /\ UserCode
    /\ ops < MaxOps
    /\ ops' = ops + 1
    /\ LET me == Depth + 1
           entry == EntryFrom(key, f)
       IN  /\ context' = publish(context, me)
           /\ frames' = Append(frames, WithContextFrame(calls + 1, <<key, f>>,
                                                        entry, context))
    /\ calls' = calls + 1
    /\ UNCHANGED <<mode, hook, stderr, takes, supplied, returned,
                   unwound, assert_failed, reports, pool,
                   panics, installs, results, elsewhere>>

\* What the action of the call numbered `id` returns when it returns.
ActionResult(id) == 10 * id

\* The record of a return: the value the action gave, the value
\* with_context() gave its caller, whether the context was enabled when the
\* call began and whether it was made under a report in progress.
Returned(frame, below, action, value) ==
    [id |-> frame.id, action |-> action, with_context |-> value,
     enabled |-> frame.pre.entries.some,
     in_report |-> \E i \in 1..Len(below) : below[i].kind = "report_crash"]

\* A with_context() that ends in `action();` and gives back a default.
ActionReturns_discards ==
    /\ UserCode
    /\ Depth > 0
    /\ Top.kind = "with_context"
    /\ LET d == drop(context, Depth)
       IN  /\ context' = d.context
           /\ assert_failed' = (assert_failed \/ ~d.ok)
    /\ frames' = Front(frames)
    /\ returned' = returned \cup {Top.id}
    /\ results' = Append(results, Returned(Top, Front(frames),
                                           ActionResult(Top.id), 0))
    /\ UNCHANGED <<mode, hook, stderr, calls, takes, ops, supplied,
                   unwound, reports, pool,
                   panics, installs, elsewhere>>

\* The action of the innermost with_context() returns: its value is the
\* value of with_context(), and the frame's locals are dropped, which runs
\* Drop for Entry.
ActionReturns ==
    /\ UserCode
    /\ Depth > 0
    /\ Top.kind = "with_context"
    /\ LET d == drop(context, Depth)
       IN  /\ context' = d.context
           /\ assert_failed' = (assert_failed \/ ~d.ok)
    /\ frames' = Front(frames)
    /\ returned' = returned \cup {Top.id}
    /\ results' = Append(results, Returned(Top, Front(frames),
                                           ActionResult(Top.id),
                                           ActionResult(Top.id)))
    /\ UNCHANGED <<mode, hook, stderr, calls, takes, ops, supplied,
                   unwound, reports, pool,
                   panics, installs, elsewhere>>

\* User code calls std::panic::catch_unwind.
CatchUnwind ==
    /\ UserCode
    /\ ops < MaxOps
    /\ ops' = ops + 1
    /\ frames' = Append(frames, CatchFrame)
    /\ UNCHANGED <<context, mode, hook, stderr, calls, takes,
                   supplied, returned, unwound, assert_failed, reports, pool,
                   panics, installs, results, elsewhere>>

\* The closure given to catch_unwind returns normally.
CatchReturns ==
    /\ UserCode
    /\ Depth > 0
    /\ Top.kind = "catch_unwind"
    /\ frames' = Front(frames)
    /\ UNCHANGED <<context, mode, hook, stderr, calls, takes, ops,
                   supplied, returned, unwound, assert_failed, reports, pool,
                   panics, installs, results, elsewhere>>

\* report_crash(message) up to the loop of context::take: the context is
\* drained and disabled.
BeginReport(message, in_hook) ==
    /\ LET t == take(context)
       IN  /\ context' = t.context
           /\ frames' = Append(frames,
                                ReportFrame(message, t.entries, in_hook,
                                            [Moment EXCEPT !.panic =
                                                IF in_hook THEN Len(panics) + 1
                                                           ELSE 0]))
    /\ takes' = takes + 1

\* User code calls report_crash(message) itself.
ReportCrash(message) ==
    /\ UserCode
    /\ ops < MaxOps
    /\ ops' = ops + 1
    /\ BeginReport(message, FALSE)
    /\ UNCHANGED <<mode, hook, stderr, calls, supplied, returned,
                   unwound, assert_failed, reports, pool,
                   panics, installs, results, elsewhere>>

\* A panic whose unwinding leaves the innermost with_context() before the
\* hook gets to run.
Panic_pops_first(payload) ==
    /\ UserCode
    /\ ops < MaxOps
    /\ ops' = ops + 1
    /\ IF InHook
       THEN /\ mode' = "abort"
            /\ UNCHANGED <<context, frames, takes>>
       ELSE IF hook
       THEN /\ LET popped == Depth > 0 /\ Top.kind = "with_context"
                   before == IF popped THEN drop(context, Depth).context
                             ELSE context
                   t == take(before)
               IN  /\ context' = t.context
                   /\ frames' = Append(IF popped THEN Front(frames) ELSE frames,
                                       ReportFrame(PanicInfo(payload), t.entries,
                                                   TRUE,
                                                   [Moment EXCEPT !.panic =
                                                       Len(panics) + 1]))
            /\ takes' = takes + 1
            /\ UNCHANGED mode
       ELSE /\ mode' = "unwind"
            /\ UNCHANGED <<context, frames, takes>>
    /\ panics' = Append(panics, [in_hook |-> InHook,
                                  in_report |-> InReport,
                                  hooked |-> hook /\ ~InHook,
                                  installs |-> installs,
                                  enabled |-> context.entries.some,
                                  active |-> ActiveCalls])
    /\ UNCHANGED <<hook, stderr, calls, supplied, returned, unwound,
                   assert_failed, reports, pool, installs, results, elsewhere>>

\* User code panics.  A panic raised while the panic hook is running aborts
\* the process; otherwise the installed hook runs report_crash() before any
\* frame is unwound, and without a hook the unwinding starts at once.
Panic(payload) ==
    /\ UserCode
    /\ ops < MaxOps
    /\ ops' = ops + 1
    /\ IF InHook
       THEN /\ mode' = "abort"
            /\ UNCHANGED <<context, frames, takes>>
       ELSE IF hook
       THEN /\ BeginReport(PanicInfo(payload), TRUE)
            /\ UNCHANGED mode
       ELSE /\ mode' = "unwind"
            /\ UNCHANGED <<context, frames, takes>>
    /\ panics' = Append(panics, [in_hook |-> InHook,
                                  in_report |-> InReport,
                                  hooked |-> hook /\ ~InHook,
                                  installs |-> installs,
                                  enabled |-> context.entries.some,
                                  active |-> ActiveCalls])
    /\ UNCHANGED <<hook, stderr, calls, supplied, returned, unwound,
                   assert_failed, reports, pool, installs, results, elsewhere>>

\* One turn of the loop in context::take: the next pointer is dereferenced
\* and the entry evaluated.  A supplier that is still there is called (user
\* code); otherwise the placeholder is pushed.  Dereferencing a pointer to
\* an Entry that is gone is undefined behaviour: the process may crash, or
\* the loop may read garbage and go on.
TakeNext ==
    /\ mode = "run"
    /\ Depth > 0
    /\ Top.kind = "report_crash"
    /\ Top.next <= Len(Top.entries)
    /\ LET entry_ptr == Top.entries[Top.next]
           advanced == [frames EXCEPT ![Depth].next = @ + 1]
       IN  IF Live(entry_ptr)
           THEN LET e == evaluate(frames[entry_ptr].entry)
                    id == frames[entry_ptr].id
                    evaluated == [advanced EXCEPT ![entry_ptr].entry = e.entry]
                IN  IF e.f.some
                    THEN /\ frames' = Append(evaluated,
                                             SupplierFrame(id, e.key, e.f.v))
                         /\ supplied' = Append(supplied,
                                               [id |-> id, nth |-> Top.at.nth])
                         /\ UNCHANGED mode
                    ELSE /\ frames' = [evaluated EXCEPT
                               ![Depth].result = Append(@, <<e.key, CalledTwice>>),
                               ![Depth].ids = Append(@, id)]
                         /\ UNCHANGED <<supplied, mode>>
           ELSE \E outcome \in {"crash", "garbage"} :
                    /\ mode' = IF outcome = "crash" THEN "abort" ELSE mode
                    /\ frames' = IF outcome = "crash" THEN frames
                                  ELSE [advanced EXCEPT
                                          ![Depth].result = Append(@, <<"?", "?">>),
                                          ![Depth].ids = Append(@, 0)]
                    /\ UNCHANGED supplied
    /\ UNCHANGED <<context, hook, stderr, calls, takes, ops,
                   returned, unwound, assert_failed, reports, pool,
                   panics, installs, results, elsewhere>>

\* The supplier returns its value: with_context() wrapped it so that the
\* value is presented, and take() pushes the pair.
SupplierReturns ==
    /\ UserCode
    /\ Depth > 0
    /\ Top.kind = "supplier"
    /\ frames' = [Front(frames) EXCEPT
                     ![Depth - 1].result = Append(@, <<Top.key, present(Top.f)>>),
                     ![Depth - 1].ids = Append(@, Top.id)]
    /\ UNCHANGED <<context, mode, hook, stderr, calls, takes, ops,
                   supplied, returned, unwound, assert_failed, reports, pool,
                   panics, installs, results, elsewhere>>

\* The loop of take() is over: report_crash() folds the pairs and prints the
\* report.  When the panic hook made the call, the panic now unwinds.
EmitReport ==
    /\ mode = "run"
    /\ Depth > 0
    /\ Top.kind = "report_crash"
    /\ Top.next > Len(Top.entries)
    /\ stderr' = Append(stderr, ReportText(Top.message, Top.result))
    /\ reports' = Append(reports, [message |-> Top.message,
                                   result |-> Top.result, ids |-> Top.ids,
                                   in_hook |-> Top.in_hook, at |-> Top.at])
    /\ frames' = Front(frames)
    /\ mode' = IF Top.in_hook THEN "unwind" ELSE "run"
    /\ UNCHANGED <<context, hook, calls, takes, ops, supplied, returned,
                   unwound, assert_failed, pool,
                   panics, installs, results, elsewhere>>

\* An unwinding that leaves with_context() frames without dropping the Entry
\* (an entry popped by a statement after the action, not by Drop).
Unwind_forgets ==
    /\ mode = "unwind"
    /\ Depth > 0
    /\ frames' = Front(frames)
    /\ mode' = IF Top.kind = "catch_unwind" THEN "run" ELSE "unwind"
    /\ unwound' = IF Top.kind = "with_context"
                  THEN unwound \cup {Top.id} ELSE unwound
    /\ UNCHANGED <<context, assert_failed, hook, stderr, calls, takes,
                   ops, supplied, returned, reports, pool,
                   panics, installs, results, elsewhere>>

\* The unwinding panic leaves the innermost frame.  Leaving a with_context()
\* frame drops its Entry; leaving a catch_unwind frame ends the unwinding.
Unwind ==
    /\ mode = "unwind"
    /\ Depth > 0
    /\ frames' = Front(frames)
    /\ IF Top.kind = "with_context"
       THEN LET d == drop(context, Depth)
            IN  /\ context' = d.context
                /\ assert_failed' = (assert_failed \/ ~d.ok)
                /\ unwound' = unwound \cup {Top.id}
                /\ UNCHANGED mode
       ELSE /\ mode' = IF Top.kind = "catch_unwind" THEN "run" ELSE "unwind"
            /\ UNCHANGED <<context, assert_failed, unwound>>
    /\ UNCHANGED <<hook, stderr, calls, takes, ops, supplied, returned,
                   reports, pool,
                   panics, installs, results, elsewhere>>

\* The panic unwound every frame: the thread is over.
ThreadDies ==
    /\ mode = "unwind"
    /\ Depth = 0
    /\ mode' = "dead"
    /\ UNCHANGED <<context, frames, hook, stderr, calls, takes, ops,
                   supplied, returned, unwound, assert_failed, reports, pool,
                   panics, installs, results, elsewhere>>

Next ==
    \/ SetupPanicHook
    \/ \E ctxt \in Contexts : WithContext(ctxt[1], ctxt[2])
    \/ ActionReturns
    \/ CatchUnwind
    \/ CatchReturns
    \/ \E message \in Messages : ReportCrash(message)
    \/ \E payload \in Payloads : Panic(payload)
    \/ TakeNext
    \/ SupplierReturns
    \/ EmitReport
    \/ Unwind
    \/ ThreadDies

Spec == Init /\ [][Next]_vars

(* ------------------------- properties: helpers ------------------------- *)

\* The pairs a report should hold for the calls `active`, outermost first.
Pairs(active) ==
    [i \in 1..Len(active) |-> <<active[i].ctxt[1], present(active[i].ctxt[2])>>]

Ids(active) == {active[i].id : i \in 1..Len(active)}
Range(seq) == {seq[i] : i \in 1..Len(seq)}
IsPrefix(a, b) == Len(a) <= Len(b) /\ a = SubSeq(b, 1, Len(a))

\* The addresses a context holds; a disabled context holds none.
Handles(ctx) == IF ctx.entries.some THEN ctx.entries.v ELSE <<>>

\* The report_crash() calls in progress and the finished ones.
ReportFrames == {i \in 1..Depth : frames[i].kind = "report_crash"}
Finished == 1..Len(reports)

\* The innermost with_context() call returns normally in this step.
ReturnsNormally ==
    /\ mode = "run" /\ mode' = "run"
    /\ Depth > 0 /\ Top.kind = "with_context"
    /\ frames' = Front(frames)

\* An unwinding panic leaves the innermost with_context() call in this step.
LeftByUnwinding ==
    /\ mode = "unwind"
    /\ Depth > 0 /\ Top.kind = "with_context"
    /\ frames' = Front(frames)

(* ------------------------------ claims --------------------------------- *)

\* C1 (P1, LIFO ordering): a report whose take() found the context enabled
\* lists the (name, value) pairs of the with_context() calls active at that
\* moment in call order, outermost first; while the report is being built
\* its pairs are a prefix of that list.
C1_LifoOrdering ==
    /\ \A n \in Finished :
         reports[n].at.enabled => reports[n].result = Pairs(reports[n].at.active)
    /\ \A i \in ReportFrames :
         frames[i].at.enabled =>
             IsPrefix(frames[i].result, Pairs(frames[i].at.active))

\* A finished report listing two different pairs of two nested calls.
C1_Witness ==
    \E n \in Finished :
        /\ reports[n].at.enabled
        /\ Len(reports[n].result) = 2
        /\ reports[n].result[1] # reports[n].result[2]

\* No report lists the pair of a call that had returned normally before the
\* report's take().
NoReturnedCallReported ==
    /\ \A n \in Finished : Range(reports[n].ids) \cap reports[n].at.returned = {}
    /\ \A i \in ReportFrames : Range(frames[i].ids) \cap frames[i].at.returned = {}

\* C2 as stated (P2, release on normal exit): after with_context() returns
\* normally no later report lists its entry, and the stack holds exactly the
\* handles it held immediately before the call.
C2_Original ==
    /\ []NoReturnedCallReported
    /\ [][ReturnsNormally => Handles(context') = Handles(Top.pre)]_vars

\* C2 as amended: after with_context() returns normally no later report lists
\* its entry; if the context is still enabled at the return, it is exactly the
\* context of the moment before the call, and if a report drained it during
\* the call it stays disabled, holding no handle.
C2_ReleaseOnNormalExit ==
    /\ []NoReturnedCallReported
    /\ [][ReturnsNormally =>
            /\ Top.id \notin ActiveIds'
            /\ context.entries.some => context' = Top.pre
            /\ ~context.entries.some => context' = context]_vars

\* A call that returned with the context enabled, followed by a report that
\* found another call active; and a call that returned after a drain.
C2_Witness ==
    /\ \E n \in Finished :
         /\ reports[n].at.enabled
         /\ reports[n].at.returned # {}
         /\ reports[n].result # <<>>
         /\ Ids(reports[n].at.active) \cap returned # {}

\* C3 (P3, release on faulting exit): when an unwinding panic leaves a
\* with_context() call, the address of its entry is not left in the context,
\* and a report lists only calls that were active at its take(), never one an
\* unwinding had left before.
C3_ReleaseOnFaultingExit ==
    /\ [](/\ \A n \in Finished :
               /\ Range(reports[n].ids) \cap reports[n].at.unwound = {}
               /\ Range(reports[n].ids) \subseteq Ids(reports[n].at.active)
          /\ \A i \in ReportFrames :
               /\ Range(frames[i].ids) \cap frames[i].at.unwound = {}
               /\ Range(frames[i].ids) \subseteq Ids(frames[i].at.active)
               /\ frames[i].at.enabled =>
                      \A k \in 1..Len(frames[i].entries) :
                          /\ frames[i].entries[k] < i
                          /\ frames[frames[i].entries[k]].kind = "with_context"
                          /\ frames[frames[i].entries[k]].id \notin frames[i].at.unwound)
    /\ [][LeftByUnwinding =>
            /\ Depth \notin Range(Handles(context'))
            /\ Top.id \notin ActiveIds'
            /\ context.entries.some => context' = Top.pre]_vars

\* A panic unwound out of a call and was caught; a later report on the thread
\* found the context enabled and listed an outer call that was still active.
C3_Witness ==
    \E n \in Finished :
        /\ reports[n].at.enabled
        /\ reports[n].at.unwound # {}
        /\ reports[n].result # <<>>

\* C4 (P4, idempotent drain): every take() after the first one on the thread
\* returns an empty vector, so the report has an empty context section, and it
\* runs no user code that could panic.
C4_IdempotentDrain ==
    /\ \A n \in Finished :
         reports[n].at.nth > 1 =>
             /\ reports[n].result = <<>>
             /\ stderr[n] = ReportText(reports[n].message, <<>>)
    /\ \A i \in ReportFrames :
         frames[i].at.nth > 1 => frames[i].entries = <<>> /\ frames[i].result = <<>>

\* Two reports in a row: the first listed entries, the second is finished.
C4_Witness ==
    /\ Len(reports) = 2
    /\ reports[1].at.nth = 1 /\ reports[1].result # <<>>
    /\ reports[2].at.nth = 2
    /\ ~reports[1].in_hook /\ ~reports[2].in_hook

\* C5: the context starts as an empty enabled stack; while it is enabled its
\* handles are the addresses of the active with_context() calls, outermost to
\* innermost; and a step changes an enabled stack only by appending one handle
\* at the end or removing the last one.
C5_StackIsDynamicExtent ==
    /\ context = ContextNew
    /\ [](context.entries.some => context.entries.v = ActiveAddrs)
    /\ [][context.entries.some /\ context'.entries.some =>
            LET a == context.entries.v
                b == context'.entries.v
            IN  \/ b = a
                \/ Len(b) = Len(a) + 1 /\ Front(b) = a
                \/ Len(a) = Len(b) + 1 /\ Front(a) = b]_vars

\* Two calls with a catch_unwind between them are on the enabled stack after
\* another call was popped.
C5_Witness ==
    /\ context.entries.some
    /\ context.entries.v = <<1, 3>>
    /\ returned # {}

\* C6: the disabled state is a one-way latch: once take() has been called the
\* context is disabled, and no step of the thread (with_context, a drop, a
\* take) enables a disabled context again.
C6_DisabledIsLatch ==
    /\ [](takes > 0 => ~context.entries.some)
    /\ [][~context.entries.some => ~context'.entries.some]_vars

\* After the first report, a with_context() call began and returned, a second
\* take() ran and another call is in progress: the context is still disabled.
C6_Witness ==
    /\ Len(reports) = 2
    /\ \E id \in reports[2].at.returned :
           id \notin reports[1].at.returned \cup Ids(reports[1].at.active)
    /\ \E i \in 1..Depth :
           frames[i].kind = "with_context" /\ ~frames[i].pre.entries.some
    /\ ~context.entries.some

\* A step that publishes an entry (a with_context() call begins).
Publishes == calls' = calls + 1

\* C7: once the context is disabled, publishing an entry and dropping one
\* (also one published before the drain) leave the context as it is, trip no
\* assertion and do not abort.
C7_NoOpsAfterDrain ==
    [][~context.entries.some /\ (Publishes \/ ReturnsNormally \/ LeftByUnwinding)
          => /\ context' = context
             /\ assert_failed' = assert_failed
             /\ mode' = mode]_vars

\* The context is disabled; a call that was active at the drain has since
\* been left, and a call that began after the drain is in progress.
C7_Witness ==
    /\ ~context.entries.some
    /\ \E n \in Finished :
           /\ reports[n].at.enabled
           /\ Ids(reports[n].at.active) \cap (returned \cup unwound) # {}
    /\ \E i \in 1..Depth :
           frames[i].kind = "with_context" /\ ~frames[i].pre.entries.some

\* C8: as long as take() has not been called, no value supplier has been
\* called or is running, every active entry still owns its supplier, and the
\* context is exactly one handle per active with_context() call.
C8_SuppliersNotCalledWithoutReport ==
    takes = 0 =>
        /\ supplied = <<>>
        /\ \A i \in 1..Depth :
               /\ frames[i].kind # "supplier"
               /\ frames[i].kind = "with_context" =>
                      frames[i].entry.value_supplier.some
        /\ context = [entries |-> Some(ActiveAddrs)]

\* No report so far, although calls have returned, a panic has unwound out of
\* a call and another call is in progress.
C8_Witness ==
    /\ takes = 0
    /\ returned # {}
    /\ unwound # {}
    /\ ActiveIds # {}

\* The ids of the calls whose supplier ran during the n-th take(), in order.
RECURSIVE SuppliedIn(_, _)
SuppliedIn(n, k) ==
    IF k = 0 THEN <<>>
    ELSE IF supplied[k].nth = n
         THEN Append(SuppliedIn(n, k - 1), supplied[k].id)
         ELSE SuppliedIn(n, k - 1)

\* The ids of the calls `active`, outermost first.
IdSeq(active) == [i \in 1..Len(active) |-> active[i].id]

\* What the take() described by `at` has to evaluate.
ToEvaluate(at) == IF at.enabled THEN IdSeq(at.active) ELSE <<>>

\* C9: a finished take() has called the supplier of each entry that was on
\* the stack at its drain exactly once, and of no other entry; a take() in
\* progress has called a prefix of them; and over the whole execution no
\* supplier is called twice.
C9_SuppliersCalledOnce ==
    /\ \A i, j \in 1..Len(supplied) : i # j => supplied[i].id # supplied[j].id
    /\ \A k \in 1..Len(supplied) : supplied[k].nth \in 1..takes
    /\ \A n \in Finished :
         SuppliedIn(reports[n].at.nth, Len(supplied)) = ToEvaluate(reports[n].at)
    /\ \A i \in ReportFrames :
         IsPrefix(SuppliedIn(frames[i].at.nth, Len(supplied)),
                  ToEvaluate(frames[i].at))

\* A finished report evaluated one entry while a call made earlier had already
\* been popped, and a second report is finished too.
C9_Witness ==
    /\ Len(reports) = 2
    /\ \E n \in Finished :
           /\ Len(reports[n].ids) >= 1
           /\ reports[n].at.returned \cup reports[n].at.unwound # {}
    /\ Len(supplied) >= 1

\* C10 (P6, placeholder on repeated evaluation): the first evaluate() of an
\* entry returns its name and the presented value of its supplier, every later
\* one returns the name and the fixed placeholder, and the supplier has run
\* once however often the entry was evaluated.
C10_PlaceholderOnRepeat ==
    \A i \in DOMAIN pool :
        /\ Len(pool[i].out) >= 1 =>
               pool[i].out[1] = <<pool[i].ctxt[1], present(pool[i].ctxt[2])>>
        /\ \A k \in 2..Len(pool[i].out) :
               pool[i].out[k] = <<pool[i].ctxt[1], "[Entry.evaluate called twice]">>
        /\ pool[i].ran = IF pool[i].out = <<>> THEN 0 ELSE 1

\* An entry that has been evaluated twice.
C10_Witness ==
    \E i \in DOMAIN pool :
        /\ Len(pool[i].out) = 2
        /\ pool[i].out[1] # pool[i].out[2]

\* A supplier that take() called panics in this step.
SupplierPanics ==
    /\ mode = "run"
    /\ Depth > 0
    /\ Top.kind = "supplier"
    /\ Len(panics') = Len(panics) + 1

\* C11 (producer faults are swallowed): when a supplier panics while a report
\* is generated, the panic is caught for that entry: the thread keeps running
\* in the loop of take(), which pushes a pair for that entry and goes on; no
\* other report is started and nothing is printed in that step.
C11_ProducerFaultsSwallowed ==
    [][SupplierPanics =>
          /\ mode' = "run"
          /\ Len(frames') = Depth - 1
          /\ frames'[Depth - 1].kind = "report_crash"
          /\ Len(frames'[Depth - 1].result) = Len(frames[Depth - 1].result) + 1
          /\ Last(frames'[Depth - 1].result)[1] = Top.key
          /\ takes' = takes
          /\ stderr' = stderr]_vars

\* The printed text begins with the header, a space, the token and an empty
\* line.
HasToken(text, tok) ==
    LET start == Header \o " " \o tok \o "\n\n"
    IN  Len(text) >= Len(start) /\ SubSeq(text, 1, Len(start)) = start

\* C13 (P5, deterministic decoration): the decoration token printed in a
\* report is one of the fixed palette, and two reports of the same message
\* print the same token, whatever the context stack held and whichever
\* reports came before; the empty message has a token of the palette too.
C13_DeterministicDecoration ==
    [][Len(stderr') = Len(stderr) + 1 =>
          LET text == Last(stderr')
              message == Last(reports').message
          IN  /\ \E tok \in Range(Options) : HasToken(text, tok)
              /\ \A m \in Finished :
                     reports[m].message = message =>
                         \A tok \in Range(Options) :
                             HasToken(text, tok) <=> HasToken(stderr[m], tok)
              /\ \A other \in Messages \cup {PanicInfo(p) : p \in Payloads} :
                     funny(other) \in Range(Options)]_vars

\* Two reports of the same message, one listing an entry and a later one
\* listing none, and a report of the empty message.
C13_Witness ==
    \E n, m, k \in Finished :
        /\ n < m
        /\ reports[n].message = reports[m].message
        /\ reports[n].result # <<>>
        /\ reports[m].result = <<>>
        /\ reports[k].message = ""

\* The pairs one after the other, each as "label:\n    value\n".
RECURSIVE Lines(_)
Lines(pairs) ==
    IF pairs = <<>> THEN ""
    ELSE (Head(pairs)[1] \o ":\n    " \o Head(pairs)[2] \o "\n") \o
         Lines(Tail(pairs))

\* Header, decoration, message, pairs and footer in this order.
Layout(tok, message, pairs) ==
    Header \o " " \o tok \o "\n\n" \o message \o "\n\n" \o Lines(pairs) \o
    "\n\n" \o Footer

\* The pairs of the active calls with the value as the supplier returned it:
\* the characters of a string, the decimal digits of a number.
RawPairs(active) ==
    [i \in 1..Len(active) |->
        <<active[i].ctxt[1],
          IF active[i].ctxt[2].type = "str" THEN active[i].ctxt[2].str
          ELSE ToString(active[i].ctxt[2].num)>>]

\* A report is printed in this step.
Emits == Len(stderr') = Len(stderr) + 1

\* C14 as the spec states it: every report consists of the header, the
\* decoration, the message, every active (label, value) pair as
\* "label:\n    value\n" with the value itself (Tick phase = logic gives
\* "Tick phase:\n    logic\n"), outermost first, and the footer.
C14_Original ==
    [][Emits =>
          \E tok \in Range(Options) :
              Last(stderr') = Layout(tok, Last(reports').message,
                                     RawPairs(Last(reports').at.active))]_vars

\* C14 (report structure), amended: every report consists, in this order, of
\* the header, the decoration, the message given to report_crash(), the
\* pairs the drain returned -- those of the calls active at the drain if the
\* context was still enabled, none otherwise -- each as "label:\n    value\n"
\* with the value in its Debug form (a string inside double quotes),
\* outermost first, and the footer.
C14_ReportStructure ==
    [][Emits =>
          \E tok \in Range(Options) :
              Last(stderr') =
                  Layout(tok, Last(reports').message,
                         IF Last(reports').at.enabled
                         THEN Pairs(Last(reports').at.active) ELSE <<>>)]_vars

\* The report of "boom" made inside "Tick phase" = "logic" around
\* "Current frame" = 42: the Tick phase pair precedes the Current frame pair.
C14_Witness ==
    \E n \in Finished :
        /\ reports[n].message = "boom"
        /\ Len(reports[n].at.active) = 2
        /\ stderr[n] =
              "==== Trapiron crash report ====\nTrapiron has crashed! >:[" \o
              "\n\nboom\n\n" \o
              "Tick phase:\n    \"logic\"\nCurrent frame:\n    42\n" \o
              "\n\n====== Crash report end ======="

\* The report_crash() calls the hook made for the k-th panic: those in
\* progress and the finished ones.
HookFrames(k) == {i \in ReportFrames :
                     frames[i].in_hook /\ frames[i].at.panic = k}
HookReports(k) == {n \in Finished :
                      reports[n].in_hook /\ reports[n].at.panic = k}

\* C15 as the spec states it: for every panic raised inside with_context()
\* actions with the hook installed, the reporter is invoked exactly once and
\* its report contains exactly the entries of the calls active at the panic.
C15_Original ==
    \A k \in 1..Len(panics) :
        (panics[k].installs >= 1 /\ panics[k].active # <<>>) =>
            /\ Cardinality(HookFrames(k)) + Cardinality(HookReports(k)) = 1
            /\ \A n \in HookReports(k) :
                   reports[n].ids = IdSeq(panics[k].active)

\* C15 (the hook reports before the unwinding), amended: for every panic
\* raised inside with_context() actions with the hook installed and not
\* running, the reporter is invoked exactly once; while it runs every call that
\* was active at the panic is still active; and its report contains exactly
\* the entries of those calls if the context was still enabled at the panic,
\* and no entry if it had been drained before.
C15_HookReportsBeforeUnwinding ==
    \A k \in 1..Len(panics) :
        (panics[k].installs >= 1 /\ ~panics[k].in_hook
                                 /\ panics[k].active # <<>>) =>
            /\ Cardinality(HookFrames(k)) + Cardinality(HookReports(k)) = 1
            /\ \A i \in HookFrames(k) :
                   IsPrefix(panics[k].active, ActiveCalls)
            /\ \A n \in HookReports(k) :
                   /\ reports[n].at.active = panics[k].active
                   /\ reports[n].ids = IF panics[k].enabled
                                       THEN IdSeq(panics[k].active) ELSE <<>>
                   /\ reports[n].result = IF panics[k].enabled
                                          THEN Pairs(panics[k].active) ELSE <<>>

\* The hook's report of a panic raised inside two nested calls is printed;
\* it lists both entries, and the unwinding has not left either call yet.
C15_Witness ==
    /\ mode = "unwind"
    /\ Len(ActiveCalls) = 2
    /\ \E k \in 1..Len(panics) : \E n \in HookReports(k) :
           /\ panics[k].active = ActiveCalls
           /\ Len(reports[n].ids) = 2

\* C16 (install() is idempotent): after any number n >= 1 of
\* setup_panic_hook() calls the hook is installed, and a panic raised while
\* the hook is not running makes it call the reporter exactly once, as after
\* a single installation, so that at most one report is printed for the
\* panic; with no installation the reporter is not called.
C16_InstallIdempotent ==
    /\ hook <=> installs >= 1
    /\ \A k \in 1..Len(panics) :
           ~panics[k].in_hook =>
               /\ panics[k].hooked <=> panics[k].installs >= 1
               /\ Cardinality(HookFrames(k)) + Cardinality(HookReports(k)) =
                      IF panics[k].installs >= 1 THEN 1 ELSE 0

\* A panic raised after two installations, its one report printed.
C16_Witness ==
    \E k \in 1..Len(panics) :
        /\ panics[k].installs >= 2
        /\ Cardinality(HookReports(k)) = 1
        /\ HookFrames(k) = {}

\* The labels that occur in the inputs.
Labels == {ctxt[1] : ctxt \in Contexts}

\* How many elements of a sequence satisfy a test.
Count(seq, Test(_)) == Cardinality({i \in 1..Len(seq) : Test(seq[i])})

\* C17 (labels are not deduplicated): while the context is enabled, the
\* stack holds one handle per active call, all distinct, so k active calls
\* with the same label are k entries; and a report whose drain found the
\* context enabled lists, for every label, as many pairs as calls with that
\* label were active, each with the value of its own call, in call order.
C17_LabelsNotDeduplicated ==
    /\ context.entries.some =>
           /\ Cardinality(Range(context.entries.v)) = Len(context.entries.v)
           /\ \A label \in Labels :
                  Count(context.entries.v,
                        LAMBDA ptr : Live(ptr) /\ frames[ptr].ctxt[1] = label)
                  = Count(ActiveCalls, LAMBDA c : c.ctxt[1] = label)
    /\ \A n \in Finished :
           reports[n].at.enabled =>
               /\ \A label \in Labels :
                      Count(reports[n].result, LAMBDA pair : pair[1] = label)
                      = Count(reports[n].at.active,
                              LAMBDA c : c.ctxt[1] = label)
               /\ \A i \in 1..Len(reports[n].at.active) :
                      /\ i <= Len(reports[n].result)
                      /\ reports[n].result[i] =
                             <<reports[n].at.active[i].ctxt[1],
                               present(reports[n].at.active[i].ctxt[2])>>

\* A report made inside two nested calls with the label "Tick phase": it
\* lists the label twice, first with the outer call's value, then with the
\* inner call's.
C17_Witness ==
    \E n \in Finished :
        reports[n].result = <<<<"Tick phase", "\"logic\"">>,
                              <<"Tick phase", "\"presentation\"">>>>

(* ----------------- EntryLike::evaluate on its own ---------------------- *)

\* An entry as with_context() builds it, with what evaluate() has returned
\* for it so far and how often its supplier has run.
Pooled(ctxt) == [entry |-> EntryFrom(ctxt[1], ctxt[2]), ctxt |-> ctxt,
                 out |-> <<>>, ran |-> 0]

InitEvaluate ==
    /\ pool \in [1..PoolSize -> {Pooled(ctxt) : ctxt \in Contexts}]
    /\ context = ContextNew
    /\ frames = <<>>
    /\ mode = "run"
    /\ hook = FALSE
    /\ stderr = <<>>
    /\ calls = 0
    /\ takes = 0
    /\ ops = 0
    /\ supplied = <<>>
    /\ returned = {}
    /\ unwound = {}
    /\ assert_failed = FALSE
    /\ reports = <<>>
    /\ panics = <<>>
    /\ installs = 0
    /\ results = <<>>
    /\ ElsewhereInit

\* entry.evaluate() on the i-th entry, the supplier returning its value.
Evaluate(i) ==
    /\ Len(pool[i].out) < MaxEvaluations
    /\ LET e == evaluate(pool[i].entry)
       IN  pool' = [pool EXCEPT
                      ![i].entry = e.entry,
                      ![i].out = Append(@, <<e.key, IF e.f.some
                                                    THEN present(e.f.v)
                                                    ELSE CalledTwice>>),
                      ![i].ran = @ + (IF e.f.some THEN 1 ELSE 0)]
    /\ UNCHANGED <<context, frames, mode, hook, stderr, calls, takes, ops,
                   supplied, returned, unwound, assert_failed, reports,
                   panics, installs, results, elsewhere>>

NextEvaluate == \E i \in 1..PoolSize : Evaluate(i)

SpecEvaluate == InitEvaluate /\ [][NextEvaluate]_vars


(* ---------------------- the context of two threads --------------------- *)

\* The contexts the threads register: main() names its thread, the GUI names
\* the frame it is drawing.
ThreadContexts == {<<"Thread", StrValue("main")>>,
                   <<"Current frame", U64Value(42)>>}

\* The message the threads give to report_crash().
ThreadMessages == {"boom"}

ThreadDepth(t) == Len(threads[t].frames)
ThreadTop(t) == Last(threads[t].frames)

\* Thread t runs user code: it is not inside the loop of take().
ThreadUserCode(t) == ThreadDepth(t) > 0 => ThreadTop(t).kind # "report_crash"

\* The addresses of the entries of thread t's active with_context() calls,
\* outermost first: an Entry lives in the frame of its call, on the stack of
\* its thread.
ThreadActiveAddrs(t) ==
    SelectSeq([i \in 1..ThreadDepth(t) |-> <<t, i>>],
              LAMBDA a : threads[t].frames[a[2]].kind = "with_context")

\* A pointer to an Entry that is still there.
ThreadLive(ptr) ==
    /\ ptr[2] \in 1..ThreadDepth(ptr[1])
    /\ threads[ptr[1]].frames[ptr[2]].kind = "with_context"

\* with_context((key, f), action) on thread t, up to the call of `action`.
ThreadWithContext(t, key, f) ==
    /\ ThreadUserCode(t)
    /\ threads[t].ops < MaxThreadOps
    /\ LET me == <<t, ThreadDepth(t) + 1>>
           cell == CONTEXT(t)
       IN  threads' = [threads EXCEPT
               ![cell].context = publish(@, me),
               ![t].frames = Append(@, WithContextFrame(
                                 <<t, threads[t].ops + 1>>, <<key, f>>,
                                 EntryFrom(key, f), threads[cell].context)),
               ![t].ops = @ + 1]
    /\ UNCHANGED <<crash, game, box, control, winit, array3>>

\* The action of thread t's innermost with_context() returns.
ThreadActionReturns(t) ==
    /\ ThreadDepth(t) > 0
    /\ ThreadTop(t).kind = "with_context"
    /\ LET cell == CONTEXT(t)
           d == drop(threads[cell].context, <<t, ThreadDepth(t)>>)
       IN  threads' = [threads EXCEPT
               ![cell].context = d.context,
               ![t].frames = Front(@),
               ![t].assert_failed = @ \/ ~d.ok]
    /\ UNCHANGED <<crash, game, box, control, winit, array3>>

\* Thread t calls report_crash(message): take() drains the cell the thread
\* reaches through CONTEXT.
ThreadReportCrash(t, message) ==
    /\ ThreadUserCode(t)
    /\ threads[t].ops < MaxThreadOps
    /\ LET cell == CONTEXT(t)
           d == take(threads[cell].context)
           at == [nth |-> threads[t].takes + 1,
                  enabled |-> threads[cell].context.entries.some,
                  active |-> ThreadActiveAddrs(t)]
       IN  threads' = [threads EXCEPT
               ![cell].context = d.context,
               ![t].frames = Append(@, ReportFrame(message, d.entries,
                                                   FALSE, at)),
               ![t].ops = @ + 1,
               ![t].takes = @ + 1]
    /\ UNCHANGED <<crash, game, box, control, winit, array3>>

\* One turn of the loop of take() on thread t; the supplier returns its
\* value.  A pointer to an Entry that is gone reads garbage.
ThreadTakeNext(t) ==
    /\ ThreadDepth(t) > 0
    /\ ThreadTop(t).kind = "report_crash"
    /\ ThreadTop(t).next <= Len(ThreadTop(t).entries)
    /\ LET ptr == ThreadTop(t).entries[ThreadTop(t).next]
           top == ThreadDepth(t)
       IN  IF ThreadLive(ptr)
           THEN LET e == evaluate(threads[ptr[1]].frames[ptr[2]].entry)
                    value == IF e.f.some THEN present(e.f.v) ELSE CalledTwice
                IN  threads' = [threads EXCEPT
                        ![ptr[1]].frames[ptr[2]].entry = e.entry,
                        ![t].frames[top].next = @ + 1,
                        ![t].frames[top].result = Append(@, <<e.key, value>>),
                        ![t].frames[top].ids = Append(@, ptr)]
           ELSE threads' = [threads EXCEPT
                        ![t].frames[top].next = @ + 1,
                        ![t].frames[top].result = Append(@, <<"?", "?">>),
                        ![t].frames[top].ids = Append(@, ptr)]
    /\ UNCHANGED <<crash, game, box, control, winit, array3>>

\* The loop of take() is over on thread t: the report is printed.
ThreadEmitReport(t) ==
    /\ ThreadDepth(t) > 0
    /\ ThreadTop(t).kind = "report_crash"
    /\ ThreadTop(t).next > Len(ThreadTop(t).entries)
    /\ threads' = [threads EXCEPT
           ![t].reports = Append(@, [text |-> ReportText(ThreadTop(t).message,
                                                         ThreadTop(t).result),
                                     result |-> ThreadTop(t).result,
                                     ids |-> ThreadTop(t).ids,
                                     at |-> ThreadTop(t).at]),
           ![t].frames = Front(@)]
    /\ UNCHANGED <<crash, game, box, control, winit, array3>>

InitThreads ==
    /\ context = ContextNew
    /\ frames = <<>>
    /\ mode = "run"
    /\ hook = FALSE
    /\ stderr = <<>>
    /\ calls = 0
    /\ takes = 0
    /\ ops = 0
    /\ supplied = <<>>
    /\ returned = {}
    /\ unwound = {}
    /\ assert_failed = FALSE
    /\ reports = <<>>
    /\ pool = <<>>
    /\ panics = <<>>
    /\ installs = 0
    /\ results = <<>>
    /\ ElsewhereInit

NextThreads ==
    \E t \in ThreadIds :
        \/ \E ctxt \in ThreadContexts : ThreadWithContext(t, ctxt[1], ctxt[2])
        \/ ThreadActionReturns(t)
        \/ \E message \in ThreadMessages : ThreadReportCrash(t, message)
        \/ ThreadTakeNext(t)
        \/ ThreadEmitReport(t)

SpecThreads == InitThreads /\ [][NextThreads]_vars

\* Thread t drains its context in this step.
ThreadDrains(t) == threads'[t].takes = threads[t].takes + 1

\* C12 (per-thread isolation): a drain executed on one thread returns only
\* that thread's entries -- the addresses of its own active with_context()
\* calls if its context was enabled, none otherwise -- and leaves every other
\* thread's stack, enabled state and entries unchanged.
C12_PerThreadIsolation ==
    [][\A t \in ThreadIds : ThreadDrains(t) =>
          /\ Last(threads'[t].frames).entries =
                 IF threads[t].context.entries.some
                 THEN ThreadActiveAddrs(t) ELSE <<>>
          /\ ~threads'[t].context.entries.some
          /\ \A u \in ThreadIds \ {t} :
                 /\ threads'[u].context = threads[u].context
                 /\ threads'[u].frames = threads[u].frames]_vars

\* One thread has printed a report with two entries of its own while the
\* other thread's context is still enabled and holds two entries.
C12_Witness ==
    \E t \in ThreadIds : \E u \in ThreadIds \ {t} :
        /\ Len(threads[t].reports) >= 1
        /\ Len(threads[t].reports[1].result) = 2
        /\ threads[u].context.entries = Some(<<<<u, 1>>, <<u, 2>>>>)


(* ----------------------------- Game::tick ------------------------------ *)

\* The address of the Entry of Game::tick's with_context, and of the entry
\* of the tick phase inside it.
GameTickEntry == 1
TickPhaseEntry == 2

\* with_context around an action that leaves the context alone: the entry
\* is published and, when the action is over, dropped.
Around(ctx, me) == drop(publish(ctx, me), me).context

\* Control::fetch_into(events): the control's pending events, `fetched` of
\* them, are appended to the queue.
fetch_into(events, fetched) ==
    events \o [i \in 1..fetched |-> [kind |-> "MoveCamera", direction |-> i]]

\* A presentation tick that hands process_presentation the first `count`
\* events of the queue (no skip(prefix)).
tick_presentation_unskipped(g, now, fetched) ==
    LET stats == start_tick(g.presentation_ticks, now)
        event == [kind |-> "PresentationTick", duration |-> stats.last_duration]
        prefix == Len(g.buffered_events)
        buffered == fetch_into(Append(g.buffered_events, event), fetched)
        count == Len(buffered) - prefix
    IN  [g EXCEPT
            !.presentation_ticks = end_tick(stats, now),
            !.buffered_events = buffered,
            !.passed = SubSeq(buffered, 1, count),
            !.ran = Append(@, <<"presentation", now>>)]

\* Game::tick_presentation(now) on the game g: the tick's own event and the
\* fetched ones are pushed to the back of the queue, and the events from
\* position `prefix` on, `count` of them, go to process_presentation.
tick_presentation(g, now, fetched) ==
    LET stats == start_tick(g.presentation_ticks, now)
        event == [kind |-> "PresentationTick", duration |-> stats.last_duration]
        prefix == Len(g.buffered_events)
        buffered == fetch_into(Append(g.buffered_events, event), fetched)
        count == Len(buffered) - prefix
    IN  [g EXCEPT
            !.presentation_ticks = end_tick(stats, now),
            !.buffered_events = buffered,
            !.passed = SubSeq(buffered, prefix + 1, prefix + count),
            !.ran = Append(@, <<"presentation", now>>)]

\* while let Some(event) = buffered_events.pop_front() { process(event) }:
\* what is left of the queue and the events processed, in order.
RECURSIVE PopAll(_, _)
PopAll(queue, processed) ==
    IF queue = <<>>
    THEN [queue |-> queue, processed |-> processed]
    ELSE PopAll(Tail(queue), Append(processed, Head(queue)))

\* Game::tick_logic(now) on the game g: the buffered events are popped and
\* processed one by one, then the tick event.
tick_logic(g, now) ==
    LET popped == PopAll(g.buffered_events, <<>>)
    IN  [g EXCEPT
            !.logic_ticks = end_tick(start_tick(@, now), now),
            !.buffered_events = popped.queue,
            !.processed = Append(popped.processed, [kind |-> "Tick"]),
            !.ran = Append(@, <<"logic", now>>),
            !.logic_instants = Append(@, now)]

\* Game::tick(now) is called: the entry ("", "Game tick") is published.
GameTick(now) ==
    /\ game.pc = "idle"
    /\ game.calls < MaxTicks
    /\ game' = [game EXCEPT !.pc = "loop", !.now = now, !.calls = @ + 1,
                            !.before = game.logic_ticks.last_timestamp,
                            !.ran = <<>>]
    /\ context' = publish(context, GameTickEntry)
    /\ UNCHANGED <<frames, mode, hook, stderr, calls, takes, ops, supplied,
                   returned, unwound, assert_failed, reports, pool, panics,
                   installs, results, threads, box, control, winit, array3>>

\* A loop that returns as soon as it breaks after a logic tick.
GameTickLoop_returns ==
    /\ game.pc = "loop"
    /\ LET last_logic_tick == IF game.logic_ticks.last_timestamp.some
                              THEN game.logic_ticks.last_timestamp.v
                              ELSE game.now
           next_logic_tick == last_logic_tick + target_tick_duration
       IN  game' = [game EXCEPT
                       !.logic_ticks.last_timestamp = Some(last_logic_tick),
                       !.next_logic_tick = next_logic_tick,
                       !.pc = IF next_logic_tick >= game.now
                              THEN (IF game.ran = <<>> THEN "final" ELSE "idle")
                              ELSE "presentation"]
    /\ context' = IF game'.pc = "idle" THEN drop(context, GameTickEntry).context
                  ELSE context
    /\ UNCHANGED <<frames, mode, hook, stderr, calls, takes, ops, supplied,
                   returned, unwound, assert_failed, reports, pool, panics,
                   installs, results, threads, box, control, winit, array3>>

\* The head of the loop: get_or_insert(now), the next logic tick's instant,
\* and the test that breaks the loop.
GameTickLoop ==
    /\ game.pc = "loop"
    /\ LET last_logic_tick == IF game.logic_ticks.last_timestamp.some
                              THEN game.logic_ticks.last_timestamp.v
                              ELSE game.now
           next_logic_tick == last_logic_tick + target_tick_duration
       IN  game' = [game EXCEPT
                       !.logic_ticks.last_timestamp = Some(last_logic_tick),
                       !.next_logic_tick = next_logic_tick,
                       !.pc = IF next_logic_tick >= game.now
                              THEN "final" ELSE "presentation"]
    /\ UNCHANGED <<crash, threads, box, control, winit, array3>>

\* In the loop: self.tick_presentation(next_logic_tick).
GameTickPresentation ==
    /\ game.pc = "presentation"
    /\ \E fetched \in 0..MaxFetched :
           game' = [tick_presentation(game, game.next_logic_tick, fetched)
                       EXCEPT !.pc = "logic"]
    /\ context' = Around(context, TickPhaseEntry)
    /\ UNCHANGED <<frames, mode, hook, stderr, calls, takes, ops, supplied,
                   returned, unwound, assert_failed, reports, pool, panics,
                   installs, results, threads, box, control, winit, array3>>

\* In the loop: self.tick_logic(now).
GameTickLogic ==
    /\ game.pc = "logic"
    /\ game' = [tick_logic(game, game.now) EXCEPT !.pc = "loop"]
    /\ context' = Around(context, TickPhaseEntry)
    /\ UNCHANGED <<frames, mode, hook, stderr, calls, takes, ops, supplied,
                   returned, unwound, assert_failed, reports, pool, panics,
                   installs, results, threads, box, control, winit, array3>>

\* After the loop: self.tick_presentation(now); then the action of
\* with_context is over, its entry is dropped and Game::tick returns.
GameTickFinal ==
    /\ game.pc = "final"
    /\ \E fetched \in 0..MaxFetched :
           game' = [tick_presentation(game, game.now, fetched)
                       EXCEPT !.pc = "idle"]
    /\ context' = drop(Around(context, TickPhaseEntry), GameTickEntry).context
    /\ UNCHANGED <<frames, mode, hook, stderr, calls, takes, ops, supplied,
                   returned, unwound, assert_failed, reports, pool, panics,
                   installs, results, threads, box, control, winit, array3>>

\* A step of a call of Game::tick that is under way.
GameTickRuns ==
    \/ GameTickLoop
    \/ GameTickPresentation
    \/ GameTickLogic
    \/ GameTickFinal

InitTick ==
    /\ context = ContextNew
    /\ frames = <<>>
    /\ mode = "run"
    /\ hook = FALSE
    /\ stderr = <<>>
    /\ calls = 0
    /\ takes = 0
    /\ ops = 0
    /\ supplied = <<>>
    /\ returned = {}
    /\ unwound = {}
    /\ assert_failed = FALSE
    /\ reports = <<>>
    /\ pool = <<>>
    /\ panics = <<>>
    /\ installs = 0
    /\ results = <<>>
    /\ ElsewhereInit

NextTick ==
    \/ \E now \in 0..MaxInstant : GameTick(now)
    \/ GameTickLoop
    \/ GameTickPresentation
    \/ GameTickLogic
    \/ GameTickFinal

\* A call that is under way goes on: the thread keeps executing it.
SpecTick == InitTick /\ [][NextTick]_vars /\ WF_vars(GameTickRuns)

\* A call of Game::tick has returned.
TickReturned == game.pc = "idle" /\ game.calls >= 1

\* C18 (Game::tick terminates with a presentation tick at now): every call of
\* Game::tick returns, whatever instant it is given and whatever the last
\* logic tick's instant was; when it has returned, it has executed at least
\* one presentation tick, and the last tick it executed is a presentation
\* tick at the instant now.
C18_TickTerminates ==
    /\ [](TickReturned =>
            /\ game.ran # <<>>
            /\ Last(game.ran) = <<"presentation", game.now>>
            /\ game.presentation_ticks.last_timestamp = Some(game.now))
    /\ (game.pc # "idle") ~> (game.pc = "idle")

\* A call given an instant more than two tick durations after the last logic
\* tick has returned after a presentation tick, a logic tick and the final
\* presentation tick.
C18_Witness ==
    /\ TickReturned
    /\ game.before.some
    /\ game.now > game.before.v + 2 * target_tick_duration
    /\ Len(game.ran) = 3

\* C19 (logic ticks at a fixed frequency): the instants of any two
\* consecutive logic ticks differ by exactly target_tick_duration(), and
\* when Game::tick(now) has returned, the logic ticks it executed are as many
\* as whole tick durations have passed since the previous logic tick (one
\* for every instant before now that is a multiple of the tick duration
\* after the previous logic tick).
C19_FixedFrequency ==
    /\ \A i \in 1..(Len(game.logic_instants) - 1) :
           game.logic_instants[i + 1] - game.logic_instants[i]
               = target_tick_duration
    /\ (TickReturned /\ game.before.some) =>
           Cardinality({i \in 1..Len(game.ran) : game.ran[i][1] = "logic"})
               = Cardinality({k \in 1..MaxInstant :
                     game.before.v + k * target_tick_duration < game.now})


\* A presentation tick, and a logic tick, is executed in this step.
PresentationTicks ==
    /\ Len(game'.ran) = Len(game.ran) + 1
    /\ game'.ran[Len(game'.ran)][1] = "presentation"
LogicTicks ==
    /\ Len(game'.ran) = Len(game.ran) + 1
    /\ game'.ran[Len(game'.ran)][1] = "logic"

\* C27 (buffered events reach World::process once, in order): a presentation
\* tick appends its events behind those already buffered, at least its own
\* PresentationTick event, and passes to process_presentation exactly the
\* events it appended; a logic tick passes to World::process all buffered
\* events, each once and in the order they were buffered, and then the tick
\* event, and leaves buffered_events empty; and no other step changes
\* buffered_events or calls World::process.  So an event is processed by the
\* first logic tick after the presentation tick that buffered it.
C27_BufferedEventsProcessedOnce ==
    [][/\ PresentationTicks =>
             /\ IsPrefix(game.buffered_events, game'.buffered_events)
             /\ game'.passed =
                    SubSeq(game'.buffered_events,
                           Len(game.buffered_events) + 1,
                           Len(game'.buffered_events))
             /\ game'.passed # <<>>
             /\ game'.passed[1].kind = "PresentationTick"
             /\ game'.processed = game.processed
       /\ LogicTicks =>
             /\ game'.processed =
                    Append(game.buffered_events, [kind |-> "Tick"])
             /\ game'.buffered_events = <<>>
       /\ ~PresentationTicks /\ ~LogicTicks =>
             /\ game'.buffered_events = game.buffered_events
             /\ game'.processed = game.processed
             /\ game'.passed = game.passed]_vars

\* A logic tick has just processed the events of two presentation ticks, the
\* last one of the call before and the one before it in the loop, and then
\* the tick event, and the queue is empty.
C27_Witness ==
    /\ game.pc = "loop"
    /\ game.calls = 2
    /\ Len(game.ran) = 2
    /\ game.buffered_events = <<>>
    /\ Len(game.processed) = 5
    /\ game.processed[1].kind = "PresentationTick"
    /\ game.processed[2].kind = "MoveCamera"
    /\ game.processed[3].kind = "PresentationTick"
    /\ game.processed[4].kind = "MoveCamera"
    /\ game.processed[5].kind = "Tick"
    /\ Len(game.passed) = 2

(* ---------------------------- Vec3BoxIter ------------------------------ *)

\* Vec3BoxIter::is_empty.
is_empty(self) == self.next.z >= self.end.z

\* Vec3BoxIter::next_unchecked: the iterator after the call and the result.
\* The coordinate that is incremented is below that of `end`, so the u32
\* additions do not overflow.
next_unchecked(self) ==
    LET x1 == self.next.x + 1
        carry_x == x1 >= self.end.x
        x2 == IF carry_x THEN self.begin.x ELSE x1
        y1 == IF carry_x THEN self.next.y + 1 ELSE self.next.y
        carry_y == y1 >= self.end.y
        y2 == IF carry_y THEN self.begin.y ELSE y1
        z2 == IF carry_y THEN self.next.z + 1 ELSE self.next.z
    IN  [self |-> [self EXCEPT !.next = UVec3(x2, y2, z2)],
         result |-> self.next]

\* Iterator::next for Vec3BoxIter.
IterNext(self) ==
    IF is_empty(self)
    THEN [self |-> self, result |-> None]
    ELSE [self |-> next_unchecked(self).self,
          result |-> Some(next_unchecked(self).result)]

Coords == 0..MaxCoord
Corners == {UVec3(x, y, z) : x \in Coords, y \in Coords, z \in Coords}

\* The integer points p with begin <= p < end in every coordinate.
BoxPoints(begin, end) ==
    {p \in Corners : /\ begin.x <= p.x /\ p.x < end.x
                     /\ begin.y <= p.y /\ p.y < end.y
                     /\ begin.z <= p.z /\ p.z < end.z}

\* The caller calls next() on the iterator.
BoxNext ==
    /\ Cardinality({i \in 1..Len(box.out) : ~box.out[i].some}) <= MaxNones
    /\ Len(box.out) <= Cardinality(Corners)
    /\ box' = [box EXCEPT !.iter = IterNext(box.iter).self,
                          !.out = Append(@, IterNext(box.iter).result),
                          !.hint = None]
    /\ UNCHANGED <<crash, threads, game, control, winit, array3>>

\* u32::checked_add and u32::checked_mul: None when the result does not fit.
\* The coordinates here are far below 2^32, so the results fit.
checked_add(a, b) == Some(a + b)
checked_mul(a, b) == Some(a * b)

\* Iterator::size_hint for Vec3BoxIter: rel.x + rel.y * shape.x
\* + rel.z * shape.x * shape.y in checked arithmetic, with `?` giving up on
\* the first None; (remaining, Some(remaining)), or (usize::MAX, None).
size_hint(self) ==
    LET shape == UVec3(self.end.x - self.begin.x, self.end.y - self.begin.y,
                       self.end.z - self.begin.z)
        rel == UVec3(self.end.x - self.next.x, self.end.y - self.next.y,
                     self.end.z - self.next.z)
        yx == checked_mul(rel.y, shape.x)
        first == IF yx.some THEN checked_add(rel.x, yx.v) ELSE None
        zx == checked_mul(rel.z, shape.x)
        zxy == IF zx.some THEN checked_mul(zx.v, shape.y) ELSE None
        remaining == IF first.some /\ zxy.some
                     THEN checked_add(first.v, zxy.v) ELSE None
    IN  IF remaining.some
        THEN [lower |-> remaining.v, upper |-> Some(remaining.v)]
        ELSE [lower |-> "usize::MAX", upper |-> None]

\* The caller calls size_hint() on the iterator.
BoxSizeHint ==
    /\ ~box.hint.some
    /\ box' = [box EXCEPT !.hint = Some(size_hint(box.iter))]
    /\ UNCHANGED <<crash, threads, game, control, winit, array3>>

InitBox ==
    /\ context = ContextNew
    /\ frames = <<>>
    /\ mode = "run"
    /\ hook = FALSE
    /\ stderr = <<>>
    /\ calls = 0
    /\ takes = 0
    /\ ops = 0
    /\ supplied = <<>>
    /\ returned = {}
    /\ unwound = {}
    /\ assert_failed = FALSE
    /\ reports = <<>>
    /\ pool = <<>>
    /\ panics = <<>>
    /\ installs = 0
    /\ results = <<>>
    /\ threads = [t \in ThreadIds |-> ThreadNew]
    /\ game = GameNew
    /\ box \in {BoxOf(begin, end) : begin \in Corners, end \in Corners}
    /\ control = ControlNew
    /\ winit = WinitApplicationNew
    /\ array3 = Array3Of(UVec3(0, 0, 0))

NextBox == BoxNext \/ BoxSizeHint

SpecBox == InitBox /\ [][NextBox]_vars

\* p comes before q in the order by z, then by y, then by x.
Before(p, q) ==
    \/ p.z < q.z
    \/ p.z = q.z /\ p.y < q.y
    \/ p.z = q.z /\ p.y = q.y /\ p.x < q.x

\* C20 (iter_box visits the box once, in order): the points begin.iter_box(end)
\* yields lie in the box begin <= p < end; each comes after all those yielded
\* before it in the order by z, then y, then x, so none is yielded twice; when
\* the iterator returns None it has yielded every point of the box, and it
\* returns None from then on; if a coordinate of end is less than or equal
\* to that of begin, it yields nothing.
C20_IterBox ==
    LET out == box.out
        points == BoxPoints(box.begin, box.end)
    IN  /\ \A i \in 1..Len(out) :
               out[i].some =>
                   /\ out[i].v \in points
                   /\ \A j \in 1..(i - 1) :
                          out[j].some /\ Before(out[j].v, out[i].v)
        /\ \A i \in 1..Len(out) :
               ~out[i].some =>
                   /\ {out[j].v : j \in {k \in 1..(i - 1) : out[k].some}} = points
                   /\ \A j \in (i + 1)..Len(out) : ~out[j].some
        /\ (\/ box.end.x <= box.begin.x
            \/ box.end.y <= box.begin.y
            \/ box.end.z <= box.begin.z) =>
               \A i \in 1..Len(out) : ~out[i].some

\* The box from (0, 0, 0) to (2, 2, 2) has been iterated to its end: eight
\* points, then None twice.
C20_Witness ==
    /\ box.begin = UVec3(0, 0, 0)
    /\ box.end = UVec3(2, 2, 2)
    /\ Len(box.out) = 10
    /\ box.out[8] = Some(UVec3(1, 1, 1))
    /\ box.out[2] = Some(UVec3(1, 0, 0))
    /\ ~box.out[9].some /\ ~box.out[10].some


\* The positions the iterator has yet to yield.
Remaining ==
    Cardinality(BoxPoints(box.begin, box.end))
    - Cardinality({i \in 1..Len(box.out) : box.out[i].some})

\* C29 (size_hint is exact): whenever size_hint() is called, from the
\* creation of the iterator to after its exhaustion, it returns
\* (n, Some(n)) with n the number of positions next() will still yield, so
\* (0, Some(0)) once the iterator is exhausted.
C29_SizeHintExact ==
    box.hint.some =>
        box.hint.v = [lower |-> Remaining, upper |-> Some(Remaining)]

(* ----------------------- Entry::drop, handles -------------------------- *)

\* An Entry is dropped in this step while the context is enabled.
DropsEnabled ==
    /\ ReturnsNormally \/ LeftByUnwinding
    /\ context.entries.some

\* C22 (the debug check of Entry::drop never fires): whenever an entry made
\* by with_context() is dropped while the context is enabled, by a normal
\* return or by an unwinding panic, at any nesting and before or between
\* reports, the handle on top of the stack is the address of that entry, the
\* drop removes exactly it, and the assertion popped == Some(me) holds.
C22_DropPopsOwnHandle ==
    [][DropsEnabled
          => /\ context.entries.v # <<>>
             /\ Last(context.entries.v) = Depth
             /\ context'.entries = Some(Front(context.entries.v))
             /\ ~assert_failed']_vars

\* With the context enabled, one nested call has returned normally and
\* another was left by a caught unwinding, and an outer call is still active
\* with its handle on the stack.
C22_Witness ==
    /\ context.entries.some
    /\ returned # {}
    /\ unwound # {}
    /\ mode = "run"
    /\ Len(context.entries.v) >= 1
    /\ ~assert_failed

\* C23 (no dangling handles): while the context is enabled its stack holds
\* the addresses of the entries of the active with_context() calls and of
\* nothing else; every address a take() in progress has yet to dereference is
\* the address of an entry whose with_context() call is still active below
\* the report; and no take() has read an entry that was gone.
C23_NoDanglingHandles ==
    /\ context.entries.some =>
           /\ \A i \in 1..Len(context.entries.v) : Live(context.entries.v[i])
           /\ context.entries.v = ActiveAddrs
    /\ \A d \in ReportFrames :
           /\ \A k \in frames[d].next..Len(frames[d].entries) :
                  /\ Live(frames[d].entries[k])
                  /\ frames[d].entries[k] < d
           /\ 0 \notin Range(frames[d].ids)
    /\ \A n \in Finished : 0 \notin Range(reports[n].ids)

\* A take() in progress has dereferenced one of two drained handles and is
\* about to dereference the other, after an earlier call had been left.
C23_Witness ==
    /\ mode = "run"
    /\ Depth > 0
    /\ Top.kind = "report_crash"
    /\ Len(Top.entries) = 2
    /\ Top.next = 2
    /\ returned \cup unwound # {}

\* A step of user code that registers, releases or reports: a
\* with_context() call begins or is left, or a take() begins.
Registers == Publishes \/ ReturnsNormally \/ LeftByUnwinding
Drains == takes' = takes + 1

\* C24 (registration during a report is harmless): while a report is being
\* generated the context is disabled, from before the first supplier is
\* called; a with_context() a supplier calls pushes nothing and pops nothing,
\* a report_crash() it calls (or a hook that runs for its panic) drains
\* nothing, and neither changes the drained entries, the position or the
\* pairs of a report in progress.
C24_ReentrantRegistrationHarmless ==
    /\ [](InReport => ~context.entries.some)
    /\ [][InReport /\ (Registers \/ Drains)
             => /\ context' = context
                /\ Drains => frames'[Len(frames')].entries = <<>>
                /\ \A d \in ReportFrames :
                       d <= Len(frames') =>
                           /\ frames'[d].entries = frames[d].entries
                           /\ frames'[d].next = frames[d].next
                           /\ frames'[d].result = frames[d].result]_vars

\* A supplier called by a report of two entries has called with_context(),
\* whose action has returned; the second entry is still to be evaluated.
C24_Witness ==
    /\ mode = "run"
    /\ Depth > 1
    /\ Top.kind = "supplier"
    /\ frames[Depth - 1].kind = "report_crash"
    /\ Len(frames[Depth - 1].entries) = 2
    /\ frames[Depth - 1].next = 2
    /\ \E id \in returned :
           /\ id \notin frames[Depth - 1].at.returned
           /\ id \notin Ids(frames[Depth - 1].at.active)

\* The with_context() frames on the call stack that belong to call `id`.
FramesOf(id) == {i \in 1..Depth : frames[i].kind = "with_context"
                                     /\ frames[i].id = id}

\* C26 (with_context runs its action once and returns its result): every
\* with_context() call has started its action once, whatever the state of
\* the context: the action is running in one frame, or it has returned
\* once, or a panic has ended it; and the value a call returned is the value
\* its action returned.
C26_ActionOnceResultUnchanged ==
    /\ \A id \in 1..calls :
           Cardinality(FramesOf(id))
           + Cardinality({k \in 1..Len(results) : results[k].id = id})
           + Cardinality({id} \cap unwound) = 1
    /\ \A k \in 1..Len(results) :
           /\ results[k].id \in returned
           /\ results[k].action = ActionResult(results[k].id)
           /\ results[k].with_context = results[k].action
    /\ \A id \in returned : \E k \in 1..Len(results) : results[k].id = id

\* Three calls have returned their action's result: one made with the
\* context enabled, one made by a supplier during a report, and one made
\* after the report, with the context drained.
C26_Witness ==
    /\ mode = "run"
    /\ \E a, b, c \in 1..Len(results) :
           /\ results[a].enabled
           /\ ~results[b].enabled /\ results[b].in_report
           /\ ~results[c].enabled /\ ~results[c].in_report

(* ------------------- an Entry that was not published ------------------- *)

\* Code of the crash module builds an Entry as a local and lets it go out of
\* scope without publish(): Drop for Entry runs for an address that is not
\* on the stack.  In a release build debug_assert_eq! is compiled out, so the
\* pop is all that happens; assert_failed records what the check would say.
DropUnpublished ==
    /\ UserCode
    /\ ops < MaxOps
    /\ ops' = ops + 1
    /\ LET me == Depth + 1
           d == drop(context, me)
       IN  /\ context' = d.context
           /\ assert_failed' = (assert_failed \/ ~d.ok)
    /\ UNCHANGED <<frames, mode, hook, stderr, calls, takes, supplied,
                   returned, unwound, reports, pool, panics, installs,
                   results, elsewhere>>

InitMisuse == Init

NextMisuse ==
    \/ \E ctxt \in Contexts : WithContext(ctxt[1], ctxt[2])
    \/ DropUnpublished
    \/ ActionReturns
    \/ \E message \in Messages : ReportCrash(message)
    \/ TakeNext
    \/ SupplierReturns
    \/ EmitReport

SpecMisuse == InitMisuse /\ [][NextMisuse]_vars

\* An Entry that was never published is dropped in this step.
DropsUnpublished == ops' = ops + 1 /\ frames' = frames

\* C25 (misuse does not corrupt the stack): when an Entry that was never
\* published is dropped while the context is enabled, the handles of the
\* active with_context() calls all stay on the stack, and the drop does not
\* fault.
C25_MisuseKeepsHandles ==
    [][DropsUnpublished /\ context.entries.some
          => /\ context' = context
             /\ context'.entries.v = ActiveAddrs
             /\ mode' = mode]_vars

(* ------------------------------- Array3 -------------------------------- *)

\* The shapes of the arrays and the positions asked for.
Shapes == {UVec3(x, y, z) : x \in 0..MaxShape, y \in 0..MaxShape,
                            z \in 0..MaxShape}
Positions == Shapes

\* Array3::checked_len_from_shape.
checked_len_from_shape(shape) ==
    LET xy == checked_mul(shape.x, shape.y)
    IN  IF xy.some THEN checked_mul(xy.v, shape.z) ELSE None

\* What the generator returns when called for `pos` as its nth call (FnMut).
Generator(pos, nth) == [at |-> pos, nth |-> nth]

\* An index computed with x and y exchanged.
unsafe_pos_to_index_yx(self, pos) ==
    pos.y + pos.x * self.shape.y + pos.z * self.shape.x * self.shape.y

\* Array3::unsafe_pos_to_index.
unsafe_pos_to_index(self, pos) ==
    pos.x + pos.y * self.shape.x + pos.z * self.shape.x * self.shape.y

\* Array3::try_pos_to_index: pos.cmplt(self.shape).all().
try_pos_to_index(self, pos) ==
    IF pos.x < self.shape.x /\ pos.y < self.shape.y /\ pos.z < self.shape.z
    THEN Some(unsafe_pos_to_index(self, pos))
    ELSE None

\* Index<UVec3> for Array3: pos_to_index panics out of bounds (None here);
\* get_unchecked(index) past the end of data reads garbage.
Array3Index(self, pos) ==
    LET index == try_pos_to_index(self, pos)
    IN  IF index.some
        THEN Some(IF index.v < Len(self.data)
                  THEN self.data[index.v + 1] ELSE "garbage")
        ELSE None

\* One turn of the loop of generate: the next position from iter_box, for
\* which the generator is called and its value pushed; when the iterator is
\* at its end, the array is built.  (checked_len_from_shape is Some here.)
Array3Generate ==
    /\ array3.pc = "generate"
    /\ checked_len_from_shape(array3.shape).some
    /\ LET n == IterNext(array3.iter)
       IN  array3' =
               IF n.result.some
               THEN [array3 EXCEPT
                        !.iter = n.self,
                        !.data = Append(@, Generator(n.result.v,
                                                     Len(array3.generated) + 1)),
                        !.generated = Append(@, n.result.v)]
               ELSE [array3 EXCEPT !.iter = n.self, !.pc = "built"]
    /\ UNCHANGED <<crash, threads, game, box, control, winit>>

\* array[pos] is read.
Array3Read(pos) ==
    /\ array3.pc = "built"
    /\ array3' = [array3 EXCEPT
                     !.read = Some([pos |-> pos,
                                    value |-> Array3Index(array3, pos)])]
    /\ UNCHANGED <<crash, threads, game, box, control, winit>>

\* Array3::pos_iter.
Array3PosIter ==
    /\ array3.pc = "built"
    /\ array3' = [array3 EXCEPT
                     !.pc = "pos_iter",
                     !.pos_iter = Vec3BoxIterNew(UVec3(0, 0, 0), array3.shape),
                     !.elem_iter = 0]
    /\ UNCHANGED <<crash, threads, game, box, control, winit>>

\* Iterator::next for PositionIter: the next element of the slice, if any,
\* with pos_iter.next_unchecked().
Array3PosIterNext ==
    /\ array3.pc = "pos_iter"
    /\ array3' =
           IF array3.elem_iter < Len(array3.data)
           THEN [array3 EXCEPT
                    !.elem_iter = @ + 1,
                    !.pos_iter = next_unchecked(array3.pos_iter).self,
                    !.yielded = Append(@,
                        <<next_unchecked(array3.pos_iter).result,
                          array3.data[array3.elem_iter + 1]>>)]
           ELSE [array3 EXCEPT !.pc = "done"]
    /\ UNCHANGED <<crash, threads, game, box, control, winit>>

InitArray3 ==
    /\ context = ContextNew
    /\ frames = <<>>
    /\ mode = "run"
    /\ hook = FALSE
    /\ stderr = <<>>
    /\ calls = 0
    /\ takes = 0
    /\ ops = 0
    /\ supplied = <<>>
    /\ returned = {}
    /\ unwound = {}
    /\ assert_failed = FALSE
    /\ reports = <<>>
    /\ pool = <<>>
    /\ panics = <<>>
    /\ installs = 0
    /\ results = <<>>
    /\ threads = [t \in ThreadIds |-> ThreadNew]
    /\ game = GameNew
    /\ box = BoxOf(UVec3(0, 0, 0), UVec3(0, 0, 0))
    /\ control = ControlNew
    /\ winit = WinitApplicationNew
    /\ array3 \in {Array3Of(shape) : shape \in Shapes}

NextArray3 ==
    \/ Array3Generate
    \/ \E pos \in Positions : Array3Read(pos)
    \/ Array3PosIter
    \/ Array3PosIterNext

SpecArray3 == InitArray3 /\ [][NextArray3]_vars

\* The positions in bounds of the array.
InBounds ==
    {pos \in Positions : /\ pos.x < array3.shape.x
                         /\ pos.y < array3.shape.y
                         /\ pos.z < array3.shape.z}

\* C30 (generate fills the array position by position): once generate has
\* built the array, data has shape.x * shape.y * shape.z elements; the
\* generator was called once for every position in bounds and for no other;
\* array[pos] is the value the generator returned for pos, for every pos in
\* bounds, so the order of generation agrees with the index
\* x + y * shape.x + z * shape.x * shape.y; and pos_iter yields every
\* element with its own position, all of them when it is at its end.
C30_GenerateFillsByPosition ==
    array3.pc # "generate" =>
        /\ Len(array3.data)
              = array3.shape.x * array3.shape.y * array3.shape.z
        /\ Len(array3.generated) = Cardinality(InBounds)
        /\ \A pos \in InBounds :
               /\ Cardinality({i \in 1..Len(array3.generated) :
                                   array3.generated[i] = pos}) = 1
               /\ Array3Index(array3, pos).some
               /\ Array3Index(array3, pos).v.at = pos
               /\ array3.generated[Array3Index(array3, pos).v.nth] = pos
        /\ array3.read.some /\ array3.read.v.pos \in InBounds =>
               /\ array3.read.v.value.some
               /\ array3.read.v.value.v.at = array3.read.v.pos
        /\ \A k \in 1..Len(array3.yielded) :
               /\ array3.yielded[k][1] \in InBounds
               /\ array3.yielded[k][2] = Array3Index(array3,
                                                     array3.yielded[k][1]).v
               /\ array3.yielded[k][2].at = array3.yielded[k][1]
               /\ \A j \in 1..(k - 1) :
                      array3.yielded[j][1] # array3.yielded[k][1]
        /\ array3.pc = "done" => Len(array3.yielded) = Len(array3.data)

\* An array of shape (2, 1, 2) was generated, its element at (1, 0, 1) was
\* read, and pos_iter has yielded its four elements and then None.
C30_Witness ==
    /\ array3.shape = UVec3(2, 1, 2)
    /\ array3.pc = "done"
    /\ Len(array3.yielded) = 4
    /\ array3.read.some
    /\ array3.read.v.pos = UVec3(1, 0, 1)
    /\ array3.read.v.value.v.nth = 4

(* ------------------------------ Control -------------------------------- *)

\* PI in the unit of the model's angles, a quarter turn being 1.  A cursor
\* displacement is given as displacement * SENSITIVITY in this unit.
PI == 2

\* Rust's % on a dividend of either sign: the remainder has its sign.
Rem(a, b) == IF a >= 0 THEN a % b ELSE 0 - ((0 - a) % b)

\* clamp(lo, hi).
Clamp(v, lo, hi) == IF v < lo THEN lo ELSE IF v > hi THEN hi ELSE v

\* Vec3::clamp_length_max(1.0): the vector itself if it is no longer than 1,
\* else the vector divided by its length (kept as the square of the length).
clamp_length_max(v) ==
    LET len2 == v.x * v.x + v.y * v.y + v.z * v.z
    IN  [v |-> v, over2 |-> IF len2 <= 1 THEN 1 ELSE len2]

\* The keys on_input looks at, and one it does not.
KeyCodes == {"KeyW", "KeyS", "KeyV", "Escape", "KeyQ"}

\* The table of movement keys in on_input.
Moves == [KeyW |-> Vec3(1, 0, 0), KeyS |-> Vec3(-1, 0, 0)]

\* gui::Input: a key event or a move of the captured cursor.
Inputs ==
    [type : {"Keyboard"}, physical_key : KeyCodes,
     state : {"Pressed", "Released"}, repeat : BOOLEAN]
    \cup [type : {"CapturedCursorMove"},
          displacement : {<<1, 0>>, <<-1, 0>>, <<0, 1>>}]

\* The number the next stored event gets.
NextSerial(c) == Len(c.queued) + 1

\* How many SetCameraRotation events pending_events has returned.
RotationsFetched(c) ==
    Cardinality({i \in 1..Len(c.fetched) :
                    c.fetched[i].kind = "SetCameraRotation"})

\* self.pending.push_back(event).
PushPending(c, event) ==
    LET e == [event EXCEPT !.n = NextSerial(c)]
    IN  [c EXCEPT !.pending = Append(@, e),
                  !.queued = Append(@, [event |-> e,
                                        epoch |-> RotationsFetched(c)])]

MoveCamera(direction) ==
    [kind |-> "MoveCamera", arg |-> direction, n |-> 0]
SetCameraRotation(rotation) ==
    [kind |-> "SetCameraRotation", arg |-> rotation, n |-> 0]

\* Control::toggle_noclip; world.player.rotation is taken to be zero.
toggle_noclip(c) ==
    IF c.noclip
    THEN [PushPending(c, MoveCamera(clamp_length_max(
                                        c.keyboard_camera_move_state)))
             EXCEPT !.noclip = FALSE,
                    !.last_camera_rotation = [yaw |-> 0, pitch |-> 0]]
    ELSE [PushPending(c, MoveCamera([v |-> Vec3(0, 0, 0), over2 |-> 1]))
             EXCEPT !.noclip = TRUE]

\* The Keyboard arm of on_input for a key event that is not a repeat.
OnKey(c, key_event) ==
    LET key == key_event.physical_key
        moved ==
            IF key \in DOMAIN Moves
            THEN LET sign == IF key_event.state = "Released" THEN -1 ELSE 1
                     st == c.keyboard_camera_move_state
                     to == Vec3(st.x + sign * Moves[key].x,
                                st.y + sign * Moves[key].y,
                                st.z + sign * Moves[key].z)
                     c1 == [c EXCEPT !.keyboard_camera_move_state = to]
                 IN  IF ~c.noclip
                     THEN PushPending(c1, MoveCamera(clamp_length_max(to)))
                     ELSE c1
            ELSE c
        escaped ==
            IF key = "Escape" /\ key_event.state = "Pressed"
            THEN [moved EXCEPT !.cursor_captured = ~@]
            ELSE moved
    IN  IF key = "KeyV" /\ key_event.state = "Pressed"
        THEN toggle_noclip(escaped)
        ELSE escaped

\* The CapturedCursorMove arm of on_input: the new rotation replaces the
\* pending SetCameraRotation, if any.
OnCursorMove(c, displacement) ==
    LET yaw == Rem(c.last_camera_rotation.yaw + displacement[1], 2 * PI)
        pitch == Clamp(c.last_camera_rotation.pitch + displacement[2],
                       0 - PI \div 2, PI \div 2)
        c1 == [c EXCEPT !.last_camera_rotation = [yaw |-> yaw, pitch |-> pitch]]
        e == [SetCameraRotation(c1.last_camera_rotation)
                 EXCEPT !.n = NextSerial(c)]
    IN  IF ~c.noclip
        THEN [c1 EXCEPT !.pending_set_camera_rotation = Some(e),
                        !.queued = Append(@, [event |-> e,
                                              epoch |-> RotationsFetched(c)])]
        ELSE c1

\* Control::on_input.
on_input(c, input) ==
    IF input.type = "Keyboard"
    THEN IF input.repeat THEN c ELSE OnKey(c, input)
    ELSE OnCursorMove(c, input.displacement)

\* Reverse of a sequence.
Reverse(seq) == [i \in 1..Len(seq) |-> seq[Len(seq) + 1 - i]]

\* A pending_events() whose iterator shows the pending rotation and leaves
\* it in place.
pending_events_keeps(c, asked) ==
    LET popped == IF asked < Len(c.pending) THEN asked ELSE Len(c.pending)
        other == SubSeq(Reverse(c.pending), 1, popped)
        rest == SubSeq(c.pending, 1, Len(c.pending) - popped)
        rotation == asked > Len(c.pending) /\ c.pending_set_camera_rotation.some
    IN  [control |-> [c EXCEPT !.pending = rest],
         out |-> IF rotation
                 THEN Append(other, c.pending_set_camera_rotation.v)
                 ELSE other,
         exhausted |-> asked > Len(c.pending)
                          + (IF c.pending_set_camera_rotation.some THEN 1 ELSE 0)]

\* Control::pending_events, its iterator asked `asked` times for an item:
\* `other` pops from the back of self.pending until that is empty, then the
\* chained iterator takes the pending rotation.
pending_events(c, asked) ==
    LET popped == IF asked < Len(c.pending) THEN asked ELSE Len(c.pending)
        other == SubSeq(Reverse(c.pending), 1, popped)
        rest == SubSeq(c.pending, 1, Len(c.pending) - popped)
        rotation == asked > Len(c.pending) /\ c.pending_set_camera_rotation.some
    IN  [control |-> [c EXCEPT !.pending = rest,
                               !.pending_set_camera_rotation =
                                   IF rotation THEN None ELSE @],
         out |-> IF rotation
                 THEN Append(other, c.pending_set_camera_rotation.v)
                 ELSE other,
         exhausted |-> asked > Len(c.pending)
                          + (IF c.pending_set_camera_rotation.some THEN 1 ELSE 0)]

\* The application hands an input to Control::on_input.
ControlOnInput(input) ==
    /\ control.inputs < MaxInputs
    /\ control' = [on_input(control, input) EXCEPT !.inputs = @ + 1,
                                                   !.exhausted = FALSE]
    /\ UNCHANGED <<crash, threads, game, box, winit, array3>>

\* A caller asks `asked` times for an item of the iterator pending_events()
\* returns and drops it; asking once more than there are items runs it to
\* its end.
ControlPendingEvents(asked) ==
    /\ control.fetches < MaxFetches
    /\ LET r == pending_events(control, asked)
       IN  control' = [r.control EXCEPT !.fetches = @ + 1,
                                        !.fetched = @ \o r.out,
                                        !.exhausted = r.exhausted]
    /\ UNCHANGED <<crash, threads, game, box, winit, array3>>

InitControl ==
    /\ context = ContextNew
    /\ frames = <<>>
    /\ mode = "run"
    /\ hook = FALSE
    /\ stderr = <<>>
    /\ calls = 0
    /\ takes = 0
    /\ ops = 0
    /\ supplied = <<>>
    /\ returned = {}
    /\ unwound = {}
    /\ assert_failed = FALSE
    /\ reports = <<>>
    /\ pool = <<>>
    /\ panics = <<>>
    /\ installs = 0
    /\ results = <<>>
    /\ ElsewhereInit

NextControl ==
    \/ \E input \in Inputs : ControlOnInput(input)
    \/ \E n \in 0..(MaxInputs + 2) :
           n <= Len(control.pending) + 2 /\ ControlPendingEvents(n)

SpecControl == InitControl /\ [][NextControl]_vars

\* The numbers of the events that are still pending, of those that were
\* returned, and whether a stored event was replaced before it was returned:
\* it is a SetCameraRotation, and a newer one was stored before any
\* SetCameraRotation was returned in between.
PendingSerials ==
    {control.pending[i].n : i \in 1..Len(control.pending)}
    \cup (IF control.pending_set_camera_rotation.some
          THEN {control.pending_set_camera_rotation.v.n} ELSE {})
FetchedSerials == {control.fetched[i].n : i \in 1..Len(control.fetched)}
Replaced(q) ==
    /\ q.event.kind = "SetCameraRotation"
    /\ \E j \in 1..Len(control.queued) :
           /\ control.queued[j].event.kind = "SetCameraRotation"
           /\ control.queued[j].epoch = q.epoch
           /\ control.queued[j].event.n > q.event.n

\* C21 (pending_events returns every event once): no event is returned
\* twice; every returned event is one on_input stored, unchanged; an event
\* on_input stored is pending, returned or replaced, and only one of the
\* three; the replaced ones are the SetCameraRotation events stored before
\* a newer one with no fetch of a rotation in between, so only the newest is
\* returned; and when the iterator was run to its end nothing is pending.
C21_PendingEventsOnce ==
    /\ \A i, j \in 1..Len(control.fetched) :
           i # j => control.fetched[i].n # control.fetched[j].n
    /\ \A i \in 1..Len(control.fetched) :
           /\ control.fetched[i].n \in 1..Len(control.queued)
           /\ control.queued[control.fetched[i].n].event = control.fetched[i]
    /\ \A k \in 1..Len(control.queued) :
           LET q == control.queued[k]
           IN  /\ q.event.n = k
               /\ (k \in PendingSerials) => ~(k \in FetchedSerials)
               /\ Replaced(q) => ~(k \in PendingSerials \cup FetchedSerials)
               /\ ~Replaced(q) => (k \in PendingSerials \cup FetchedSerials)
    /\ control.exhausted => PendingSerials = {}

\* Two rotations were stored between two fetches that ran to the end, after
\* a movement event: the second fetch returned the newer rotation only.
C21_Witness ==
    /\ control.exhausted
    /\ control.fetches = 2
    /\ Len(control.queued) = 4
    /\ \E k \in 1..Len(control.queued) : Replaced(control.queued[k])
    /\ Len(control.fetched) = 3
    /\ control.fetched[3].kind = "SetCameraRotation"


(* -------------------------- WinitApplication --------------------------- *)

\* The windows events are addressed to: the one of the Gui and another one.
OwnWindow == 1
WindowIds == {OwnWindow, 2}

\* The event loop may call a handler: none is running and run_app is not over.
MayHandle ==
    /\ winit.pc = "loop"
    /\ Len(winit.handled) < MaxHandlerCalls

\* A resumed() that initializes whenever it is called.
WinitResumed_always ==
    /\ MayHandle
    /\ winit' = [winit EXCEPT !.state = "Initializing", !.pc = "gui_new",
                              !.handled = Append(@, "resumed")]
    /\ UNCHANGED <<crash, threads, game, box, control, array3>>

\* resumed(): in the state Ready the initializer is taken out and the state
\* becomes Initializing; in any other state the call returns at once.
WinitResumed ==
    /\ MayHandle
    /\ winit' = IF winit.state = "Ready"
                THEN [winit EXCEPT !.state = "Initializing", !.pc = "gui_new",
                                   !.handled = Append(@, "resumed")]
                ELSE [winit EXCEPT !.handled = Append(@, "resumed")]
    /\ UNCHANGED <<crash, threads, game, box, control, array3>>

\* resumed(), next: Gui::new(event_loop) inside with_context.
WinitGuiNew ==
    /\ winit.pc = "gui_new"
    /\ winit' = [winit EXCEPT !.pc = "initializer",
                              !.log = Append(@, "Gui::new")]
    /\ UNCHANGED <<crash, threads, game, box, control, array3>>

\* resumed(), last: initializer(&mut gui) inside with_context, and the
\* state becomes Running { user_app, gui }.
WinitInitializer ==
    /\ winit.pc = "initializer"
    /\ winit' = [winit EXCEPT !.pc = "loop", !.state = "Running",
                              !.log = Append(@, "initializer")]
    /\ UNCHANGED <<crash, threads, game, box, control, array3>>

\* Gui::new or the initializer panics: resumed() is left by the unwinding
\* with the state as it is, and run_app is over.
WinitPanics ==
    /\ winit.pc \in {"gui_new", "initializer"}
    /\ winit' = [winit EXCEPT !.pc = "over"]
    /\ UNCHANGED <<crash, threads, game, box, control, array3>>

\* window_event(): handled only in the state Running and for the window of
\* the Gui.
WinitWindowEvent(window_id) ==
    /\ MayHandle
    /\ winit' = IF winit.state = "Running" /\ window_id = OwnWindow
                THEN [winit EXCEPT
                         !.delivered = Append(@, [kind |-> "Window",
                                                  state |-> winit.state]),
                         !.handled = Append(@, "window_event")]
                ELSE [winit EXCEPT !.handled = Append(@, "window_event")]
    /\ UNCHANGED <<crash, threads, game, box, control, array3>>

\* device_event(): handled only in the state Running, when the window has
\* the focus and the cursor is captured.
WinitDeviceEvent(has_focus, cursor_captured) ==
    /\ MayHandle
    /\ winit' = IF winit.state = "Running" /\ has_focus /\ cursor_captured
                THEN [winit EXCEPT
                         !.delivered = Append(@, [kind |-> "Device",
                                                  state |-> winit.state]),
                         !.handled = Append(@, "device_event")]
                ELSE [winit EXCEPT !.handled = Append(@, "device_event")]
    /\ UNCHANGED <<crash, threads, game, box, control, array3>>

\* about_to_wait(): a redraw is requested in the state Running.
WinitAboutToWait ==
    /\ MayHandle
    /\ winit' = IF winit.state = "Running"
                THEN [winit EXCEPT !.redraws = @ + 1, !.handled = Append(@, "about_to_wait")]
                ELSE [winit EXCEPT !.handled = Append(@, "about_to_wait")]
    /\ UNCHANGED <<crash, threads, game, box, control, array3>>

InitWinit ==
    /\ context = ContextNew
    /\ frames = <<>>
    /\ mode = "run"
    /\ hook = FALSE
    /\ stderr = <<>>
    /\ calls = 0
    /\ takes = 0
    /\ ops = 0
    /\ supplied = <<>>
    /\ returned = {}
    /\ unwound = {}
    /\ assert_failed = FALSE
    /\ reports = <<>>
    /\ pool = <<>>
    /\ panics = <<>>
    /\ installs = 0
    /\ results = <<>>
    /\ ElsewhereInit

NextWinit ==
    \/ WinitResumed
    \/ WinitGuiNew
    \/ WinitInitializer
    \/ WinitPanics
    \/ \E window_id \in WindowIds : WinitWindowEvent(window_id)
    \/ \E has_focus, cursor_captured \in BOOLEAN :
           WinitDeviceEvent(has_focus, cursor_captured)
    \/ WinitAboutToWait

SpecWinit == InitWinit /\ [][NextWinit]_vars

\* How often resumed() executed `what`.
Executed(what) ==
    Cardinality({i \in 1..Len(winit.log) : winit.log[i] = what})

\* C28 (Ready, Initializing, Running, in this order): the state changes only
\* from Ready to Initializing and from Initializing to Running; the
\* initializer is executed at most once however often resumed() is called,
\* and only after Gui::new; the state is Running exactly when the
\* initializer has been executed; and every window or device event handed to
\* the user application was handed over in the state Running.
C28_WinitLifecycle ==
    /\ [][\/ winit'.state = winit.state
          \/ winit.state = "Ready" /\ winit'.state = "Initializing"
          \/ winit.state = "Initializing" /\ winit'.state = "Running"]_vars
    /\ [](/\ Executed("initializer") <= 1
          /\ Executed("Gui::new") <= 1
          /\ IsPrefix(winit.log, <<"Gui::new", "initializer">>)
          /\ winit.state = "Running" <=> Executed("initializer") = 1
          /\ winit.state = "Ready" <=> winit.log = <<>> /\ winit.pc = "loop"
          /\ \A i \in 1..Len(winit.delivered) :
                 winit.delivered[i].state = "Running")

\* resumed() was called three times and an event was delivered in between:
\* the initializer ran once.
C28_Witness ==
    /\ Len(winit.handled) = 4
    /\ Cardinality({i \in 1..4 : winit.handled[i] = "resumed"}) = 3
    /\ winit.state = "Running"
    /\ Len(winit.delivered) = 1
    /\ winit.redraws = 0
    /\ winit.log = <<"Gui::new", "initializer">>

====
